---- MODULE Spec2Model ----
(***************************************************************************)
(* Model of the asynchronous log engine of Data-Corruption/blog (v3):      *)
(* internal/logger/logger.go, internal/logger/filewriter.go,               *)
(* internal/config/config.go.                                              *)
(*                                                                         *)
(* Sizes are counted in lines: every formatted line is one unit long, so   *)
(* writeBuffer.Len() is Len(writeBuffer) and a file's size is the number   *)
(* of lines it holds.                                                      *)
(***************************************************************************)
EXTENDS Integers, Sequences, FiniteSets, TLC

(***************************************************************************)
(* level.Level                                                             *)
(***************************************************************************)
NONE == 0
ERROR == 1
WARN == 2
INFO == 3
DEBUG == 4
FATAL == 5

Levels == {NONE, ERROR, WARN, INFO, DEBUG, FATAL}

\* The levels a log call can carry: Error, Warn, Info, Debug and Fatal.
EventLevels == {ERROR, WARN, INFO, DEBUG, FATAL}

(***************************************************************************)
(* Bounds of the model                                                     *)
(***************************************************************************)
\* Number of distinct random suffixes strutil.Random can return.
MaxSuffix == 2

(***************************************************************************)
(* Values                                                                  *)
(***************************************************************************)
\* The console sinks: none (ConsoleOut.L == nil), the sink the user
\* configured, and the default one fallbackToConsole installs (os.Stdout).
NoSink == "nil"
UserSink == "user"
StdoutSink == "stdout"
Sinks == {NoSink, UserSink, StdoutSink}

\* The package variables of config that ApplyDefaults points nil fields
\* to (the interval in seconds).
DefaultLevel == INFO
DefaultMaxBufferSizeBytes == 4096
DefaultMaxFileSizeBytes == 1073741824
DefaultFlushInterval == 15
DefaultDirectoryPath == "."

\* Directories that exist in the file system: a directory the caller
\* names, and the working directory.
ValidDirs == {"d1", DefaultDirectoryPath}

\* No process exit has happened.
NoExit == -1

Suffixes == 1..MaxSuffix

\* The outcome of the system calls of one flush: all succeed, or the named
\* call fails (the "2" calls are those of the write after a rotation;
\* "short" is a write that fails after writing a part of the buffer).
IOOutcomes == {"ok", "open", "stat", "write", "short", "random", "rename",
               "open2", "stat2", "write2", "short2"}

(***************************************************************************)
(* Level names.  A string is the sequence of its characters.               *)
(***************************************************************************)
LowerCase == <<"a", "b", "c", "d", "e", "f", "g", "h", "i", "j", "k", "l", "m">> \o
             <<"n", "o", "p", "q", "r", "s", "t", "u", "v", "w", "x", "y", "z">>
UpperCase == <<"A", "B", "C", "D", "E", "F", "G", "H", "I", "J", "K", "L", "M">> \o
             <<"N", "O", "P", "Q", "R", "S", "T", "U", "V", "W", "X", "Y", "Z">>

ToUpperRune(ch) ==
    IF \E i \in 1..Len(LowerCase) : LowerCase[i] = ch
    THEN UpperCase[CHOOSE i \in 1..Len(LowerCase) : LowerCase[i] = ch]
    ELSE ch

ToLowerRune(ch) ==
    IF \E i \in 1..Len(UpperCase) : UpperCase[i] = ch
    THEN LowerCase[CHOOSE i \in 1..Len(UpperCase) : UpperCase[i] = ch]
    ELSE ch

\* strings.ToUpper
ToUpper(str) == [i \in 1..Len(str) |-> ToUpperRune(str[i])]

\* Level.String
String(l) ==
    CASE l = NONE -> <<"N", "O", "N", "E">>
      [] l = ERROR -> <<"E", "R", "R", "O", "R">>
      [] l = WARN -> <<"W", "A", "R", "N">>
      [] l = INFO -> <<"I", "N", "F", "O">>
      [] l = DEBUG -> <<"D", "E", "B", "U", "G">>
      [] l = FATAL -> <<"F", "A", "T", "A", "L">>
      [] OTHER -> <<"?">>

\* The error of FromString, and no error.
ErrInvalid == "blog: invalid log level"
NoErr == "nil"

\* The errors of the singleton's guard.
ErrUninitialized == "blog: uninitialized"
ErrShutdown == "blog: logger has been shut down"

\* level.Level.FromString of the internal package: l is the value behind
\* the pointer receiver, the result is that value after the call and the
\* error returned.
levelFromString(l, levelStr) ==
    LET u == ToUpper(levelStr)
    IN  CASE u = <<"N", "O", "N", "E">> -> [l |-> NONE, err |-> NoErr]
          [] u = <<"E", "R", "R", "O", "R">> -> [l |-> ERROR, err |-> NoErr]
          [] u = <<"W", "A", "R", "N">> -> [l |-> WARN, err |-> NoErr]
          [] u = <<"I", "N", "F", "O">> -> [l |-> INFO, err |-> NoErr]
          [] u = <<"D", "E", "B", "U", "G">> -> [l |-> DEBUG, err |-> NoErr]
          [] u = <<"F", "A", "T", "A", "L">> -> [l |-> FATAL, err |-> NoErr]
          [] OTHER -> [l |-> l, err |-> ErrInvalid]

\* Level.FromString of package blog: ll := level.Level(*l) is a copy of the
\* receiver's value, and ll.FromString assigns to the copy.
FromString(l, levelStr) ==
    LET ll == l
        r == levelFromString(ll, levelStr)
    IN  [l |-> l, err |-> r.err]

(***************************************************************************)
(* Pure helpers                                                            *)
(***************************************************************************)
\* filepath.Clean on the paths of the model: a trailing slash is dropped.
Clean(path) ==
    CASE path = "d1/" -> "d1"
      [] path = "bad/" -> "bad"
      [] OTHER -> path

\* os.Stat(path) succeeds and IsDir(): the path names an existing directory.
IsExistingDir(path) == path \in ValidDirs

\* The formatted line of a message: prefix with the level tag, then content.
FormatLine(m) == [level |-> m.level, id |-> m.id]

\* The level test of handleMessage: TRUE when the message is dropped.
Filtered(cfgLevel, msgLevel) ==
    \/ cfgLevel = NONE
    \/ msgLevel > cfgLevel


(***************************************************************************)
(* The engine: a record                                                    *)
(*   config      the Config (Level, MaxBufferSizeBytes, MaxFileSizeBytes,  *)
(*               FlushInterval, DirectoryPath, ConsoleOut)                 *)
(*   writeBuffer the lines not yet flushed                                 *)
(*   files       per directory: whether latest.log exists, its lines, and  *)
(*               the rotated files in the order they were created          *)
(*   console     what was printed, in order: [sink, kind, lines]           *)
(*   exit        NoExit, or the code os.Exit was called with               *)
(* The operators below are the methods of Logger on that record.  env is   *)
(* what the environment decides during one call: the clock (now), the      *)
(* random suffix (rnd) and the outcome of the system calls (io).           *)
(***************************************************************************)

\* The name of a rotated file: its timestamp, and NoSuffix or the suffix.
RotName(ts, sfx) == [ts |-> ts, sfx |-> sfx]

\* The name without a suffix: <timestamp>.log.
NoSuffix == <<>>

\* The alphabet of base64.URLEncoding, and its padding character.
Alphabet ==
    <<"A", "B", "C", "D", "E", "F", "G", "H", "I", "J", "K", "L", "M", "N", "O", "P",
      "Q", "R", "S", "T", "U", "V", "W", "X", "Y", "Z", "a", "b", "c", "d", "e", "f",
      "g", "h", "i", "j", "k", "l", "m", "n", "o", "p", "q", "r", "s", "t", "u", "v",
      "w", "x", "y", "z", "0", "1", "2", "3", "4", "5", "6", "7", "8", "9", "-", "_">>

Padding == "="

\* base64.URLEncoding.EncodeToString: every three bytes give four
\* characters; a last group of one or two bytes is padded to four.
EncodeToString(b) ==
    LET n == Len(b)
        byte(i) == IF i <= n THEN b[i] ELSE 0
        char(k) ==
            LET g == 3 * ((k - 1) \div 4)
                j == (k - 1) % 4
            IN  CASE j = 0 -> Alphabet[(byte(g + 1) \div 4) + 1]
                  [] j = 1 -> Alphabet[(byte(g + 1) % 4) * 16
                                        + (byte(g + 2) \div 16) + 1]
                  [] j = 2 -> IF g + 2 > n THEN Padding
                              ELSE Alphabet[(byte(g + 2) % 16) * 4
                                            + (byte(g + 3) \div 64) + 1]
                  [] j = 3 -> IF g + 3 > n THEN Padding
                              ELSE Alphabet[(byte(g + 3) % 64) + 1]
    IN  [k \in 1..(((n + 2) \div 3) * 4) |-> char(k)]

\* The bytes rand.Read delivers for draw rnd.
RandomBytes(length, rnd) == [i \in 1..length |-> (rnd * 67 + i * 29) % 256]

\* strutil.Random: length random bytes, encoded.
Random(length, rnd) == EncodeToString(RandomBytes(length, rnd))

\* The number of bytes rotatedFilename asks strutil.Random for.
SuffixBytes == 8

\* strutil.Random(8), by draw.
RandomSuffix == [rnd \in Suffixes |-> Random(SuffixBytes, rnd)]

NameExists(rotated, name) == \E i \in 1..Len(rotated) : rotated[i].name = name

ConsolePrint(e, kind, lines) ==
    [e EXCEPT !.console =
        Append(@, [sink |-> e.config.ConsoleOut, kind |-> kind, lines |-> lines])]

fallbackToConsole(e) ==
    [e EXCEPT !.config.DirectoryPath = "",
              !.config.ConsoleOut = IF @ = NoSink THEN StdoutSink ELSE @]

\* Defective variant of setPath: an existing directory is not stored.
setPathIgnoresValid(e, path) ==
    IF path = "" THEN fallbackToConsole(e)
    ELSE IF ~IsExistingDir(Clean(path)) THEN fallbackToConsole(e)
    ELSE e

\* setPath: the engine after the call.
setPath(e, path) ==
    IF path = "" THEN fallbackToConsole(e)
    ELSE IF ~IsExistingDir(Clean(path)) THEN fallbackToConsole(e)
    ELSE [e EXCEPT !.config.DirectoryPath = Clean(path)]

\* setPath: TRUE when it returns an error.
setPathFails(path) == path # "" /\ ~IsExistingDir(Clean(path))

\* Defective variant of rotatedFilename: the name is the timestamp alone,
\* whether or not a file of that name exists.
rotatedFilenameNoSuffix(rotated, env) ==
    [name |-> RotName(env.now, NoSuffix), err |-> FALSE]

\* rotatedFilename: [name, err].
rotatedFilename(rotated, env) ==
    IF NameExists(rotated, RotName(env.now, NoSuffix))
    THEN IF env.io = "random"
         THEN [name |-> RotName(env.now, NoSuffix), err |-> TRUE]
         ELSE [name |-> RotName(env.now, RandomSuffix[env.rnd]), err |-> FALSE]
    ELSE [name |-> RotName(env.now, NoSuffix), err |-> FALSE]

\* os.Rename(latest.log, name) inside directory d: an existing file of that
\* name is replaced.
Rename(dirFiles, name) ==
    LET kept == SelectSeq(dirFiles.rotated, LAMBDA f : f.name # name)
    IN  [exists |-> FALSE, latest |-> <<>>,
         rotated |-> Append(kept, [name |-> name, content |-> dirFiles.latest])]

\* f.Write failing after it has written a part of the buffer: the first
\* line of two or more.
ShortWrite(buffer) == IF Len(buffer) >= 2 THEN SubSeq(buffer, 1, 1) ELSE <<>>

\* Defective variant of writeIfUnderMaxFileSize: the write lands in front of
\* the content of the file instead of behind it.
writeInFront(e, env, second) ==
    LET d == e.config.DirectoryPath
        fail(call) == env.io = (IF second THEN call \o "2" ELSE call)
        opened == [e EXCEPT !.files[d].exists = TRUE]
    IN  IF fail("open") THEN [e |-> e, overflow |-> FALSE, err |-> TRUE]
        ELSE IF fail("stat") THEN [e |-> opened, overflow |-> FALSE, err |-> TRUE]
        ELSE IF Len(opened.files[d].latest) >= e.config.MaxFileSizeBytes
             THEN [e |-> opened, overflow |-> TRUE, err |-> FALSE]
        ELSE IF fail("write") THEN [e |-> opened, overflow |-> FALSE, err |-> TRUE]
        ELSE IF fail("short")
             THEN [e |-> [opened EXCEPT !.files[d].latest =
                                            @ \o ShortWrite(e.writeBuffer)],
                   overflow |-> FALSE, err |-> TRUE]
        ELSE [e |-> [opened EXCEPT !.files[d].latest = e.writeBuffer \o @,
                                   !.writeBuffer = <<>>],
              overflow |-> FALSE, err |-> FALSE]

\* writeIfUnderMaxFileSize: [e, overflow, err].  second tells the call made
\* by rotateLogFile from the one made by flush.
writeIfUnderMaxFileSize(e, env, second) ==
    LET d == e.config.DirectoryPath
        fail(call) == env.io = (IF second THEN call \o "2" ELSE call)
        \* O_CREATE: the file exists once it is open
        opened == [e EXCEPT !.files[d].exists = TRUE]
    IN  IF fail("open") THEN [e |-> e, overflow |-> FALSE, err |-> TRUE]
        ELSE IF fail("stat") THEN [e |-> opened, overflow |-> FALSE, err |-> TRUE]
        ELSE IF Len(opened.files[d].latest) >= e.config.MaxFileSizeBytes
             THEN [e |-> opened, overflow |-> TRUE, err |-> FALSE]
        ELSE IF fail("write") THEN [e |-> opened, overflow |-> FALSE, err |-> TRUE]
        ELSE IF fail("short")
             THEN [e |-> [opened EXCEPT !.files[d].latest =
                                            @ \o ShortWrite(e.writeBuffer)],
                   overflow |-> FALSE, err |-> TRUE]
        ELSE [e |-> [opened EXCEPT !.files[d].latest = @ \o e.writeBuffer,
                                   !.writeBuffer = <<>>],
              overflow |-> FALSE, err |-> FALSE]

\* Defective variant of rotateLogFile: latest.log is renamed, the buffer is
\* not written to the new latest.log.
rotateLogFileNoWrite(e, env) ==
    LET d == e.config.DirectoryPath
        rn == rotatedFilename(e.files[d].rotated, env)
    IN  IF rn.err THEN [e |-> e, err |-> TRUE]
        ELSE IF env.io = "rename" THEN [e |-> e, err |-> TRUE]
        ELSE [e |-> [e EXCEPT !.files[d] = Rename(@, rn.name)], err |-> FALSE]

\* Defective variant of rotateLogFile: the buffer is appended to latest.log
\* before the rename, and the new latest.log is created empty.
rotateLogFileWriteFirst(e, env) ==
    LET d == e.config.DirectoryPath
        rn == rotatedFilename(e.files[d].rotated, env)
    IN  IF rn.err THEN [e |-> e, err |-> TRUE]
        ELSE IF env.io = "rename" THEN [e |-> e, err |-> TRUE]
        ELSE LET written == [e EXCEPT !.files[d].latest = @ \o e.writeBuffer,
                                      !.writeBuffer = <<>>]
                 renamed == [written EXCEPT !.files[d] = Rename(@, rn.name)]
             IN  [e |-> [renamed EXCEPT !.files[d].exists = TRUE], err |-> FALSE]

\* rotateLogFile: [e, err].
rotateLogFile(e, env) ==
    LET d == e.config.DirectoryPath
        rn == rotatedFilename(e.files[d].rotated, env)
    IN  IF rn.err THEN [e |-> e, err |-> TRUE]
        ELSE IF env.io = "rename" THEN [e |-> e, err |-> TRUE]
        ELSE LET renamed == [e EXCEPT !.files[d] = Rename(@, rn.name)]
                 w == writeIfUnderMaxFileSize(renamed, env, TRUE)
             IN  [e |-> w.e, err |-> w.err \/ w.overflow]

\* Defective variant of handleFlushError: the buffer is dropped without
\* being printed.
handleFlushErrorSilent(e) ==
    LET fb == fallbackToConsole(e)
        diag == ConsolePrint(fb, "diag", <<>>)
    IN  [diag EXCEPT !.writeBuffer = <<>>]

handleFlushError(e) ==
    LET fb == fallbackToConsole(e)
        diag == ConsolePrint(fb, "diag", <<>>)
        dump == ConsolePrint(diag, "dump", e.writeBuffer)
    IN  [dump EXCEPT !.writeBuffer = <<>>]

\* Defective variant of flush: the error of rotateLogFile is dropped.
flushDropsRotateError(e, env) ==
    IF Len(e.writeBuffer) = 0 \/ e.config.DirectoryPath = "" THEN e
    ELSE LET w == writeIfUnderMaxFileSize(e, env, FALSE)
         IN  IF w.err THEN handleFlushError(w.e)
             ELSE IF w.overflow THEN rotateLogFile(w.e, env).e
             ELSE w.e

\* Defective variant of flush: nothing is written until the buffer is full.
flushWhenFull(e, env) ==
    IF Len(e.writeBuffer) < e.config.MaxBufferSizeBytes
       \/ e.config.DirectoryPath = "" THEN e
    ELSE LET w == writeIfUnderMaxFileSize(e, env, FALSE)
         IN  IF w.err THEN handleFlushError(w.e)
             ELSE IF w.overflow
                  THEN LET r == rotateLogFile(w.e, env)
                       IN  IF r.err THEN handleFlushError(r.e) ELSE r.e
             ELSE w.e

flush(e, env) ==
    IF Len(e.writeBuffer) = 0 \/ e.config.DirectoryPath = "" THEN e
    ELSE LET w == writeIfUnderMaxFileSize(e, env, FALSE)
         IN  IF w.err THEN handleFlushError(w.e)
             ELSE IF w.overflow
                  THEN LET r == rotateLogFile(w.e, env)
                       IN  IF r.err THEN handleFlushError(r.e) ELSE r.e
             ELSE w.e

\* Defective variant of handleMessage: every buffered line is flushed at
\* once, whatever MaxBufferSizeBytes is.
handleMessageUnbuffered(e, m, env) ==
    IF Filtered(e.config.Level, m.level) THEN e
    ELSE LET line == FormatLine(m)
             buffered ==
                 IF e.config.DirectoryPath # ""
                 THEN flush([e EXCEPT !.writeBuffer = Append(@, line)], env)
                 ELSE e
             printed ==
                 IF buffered.config.ConsoleOut # NoSink
                 THEN ConsolePrint(buffered, "line", <<line>>)
                 ELSE buffered
         IN  IF m.level = FATAL
             THEN [flush(printed, env) EXCEPT !.exit = m.exitCode]
             ELSE printed

\* Defective variant of handleMessage: the line is buffered whether or not
\* DirectoryPath is empty.
handleMessageAlwaysBuffers(e, m, env) ==
    IF Filtered(e.config.Level, m.level) THEN e
    ELSE LET line == FormatLine(m)
             b == [e EXCEPT !.writeBuffer = Append(@, line)]
             buffered ==
                 IF e.config.DirectoryPath # ""
                    /\ Len(b.writeBuffer) >= b.config.MaxBufferSizeBytes
                 THEN flush(b, env) ELSE b
             printed ==
                 IF buffered.config.ConsoleOut # NoSink
                 THEN ConsolePrint(buffered, "line", <<line>>)
                 ELSE buffered
         IN  IF m.level = FATAL
             THEN [flush(printed, env) EXCEPT !.exit = m.exitCode]
             ELSE printed

\* Defective variant of handleMessage: the line is buffered and the length
\* of the buffer is not compared with MaxBufferSizeBytes.
handleMessageNoSizeFlush(e, m, env) ==
    IF Filtered(e.config.Level, m.level) THEN e
    ELSE LET line == FormatLine(m)
             buffered ==
                 IF e.config.DirectoryPath # ""
                 THEN [e EXCEPT !.writeBuffer = Append(@, line)]
                 ELSE e
             printed ==
                 IF buffered.config.ConsoleOut # NoSink
                 THEN ConsolePrint(buffered, "line", <<line>>)
                 ELSE buffered
         IN  IF m.level = FATAL
             THEN [flush(printed, env) EXCEPT !.exit = m.exitCode]
             ELSE printed

handleMessage(e, m, env) ==
    IF Filtered(e.config.Level, m.level) THEN e
    ELSE LET line == FormatLine(m)
             buffered ==
                 IF e.config.DirectoryPath # ""
                 THEN LET b == [e EXCEPT !.writeBuffer = Append(@, line)]
                      IN  IF Len(b.writeBuffer) >= b.config.MaxBufferSizeBytes
                          THEN flush(b, env) ELSE b
                 ELSE e
             printed ==
                 IF buffered.config.ConsoleOut # NoSink
                 THEN ConsolePrint(buffered, "line", <<line>>)
                 ELSE buffered
         IN  IF m.level = FATAL
             THEN [flush(printed, env) EXCEPT !.exit = m.exitCode]
             ELSE printed

\* A Config passed to UpdateConfig: every field is a pointer, modelled as <<>>
\* (nil) or <<v>>.  updateConfig is run's setConfigChan case.
Nil == <<>>

updateConfig(e, cfg) ==
    LET c1 == IF cfg.Level # Nil
              THEN [e EXCEPT !.config.Level = cfg.Level[1]] ELSE e
        c2 == IF cfg.MaxBufferSizeBytes # Nil
              THEN [c1 EXCEPT !.config.MaxBufferSizeBytes = cfg.MaxBufferSizeBytes[1]]
              ELSE c1
        c3 == IF cfg.MaxFileSizeBytes # Nil
              THEN [c2 EXCEPT !.config.MaxFileSizeBytes = cfg.MaxFileSizeBytes[1]]
              ELSE c2
        c4 == IF cfg.FlushInterval # Nil
              THEN [c3 EXCEPT !.config.FlushInterval = cfg.FlushInterval[1]] ELSE c3
        c5 == IF cfg.DirectoryPath # Nil
              THEN setPath(c4, cfg.DirectoryPath[1]) ELSE c4
    IN  IF cfg.ConsoleOut # Nil
        THEN [c5 EXCEPT !.config.ConsoleOut = cfg.ConsoleOut[1]] ELSE c5


(***************************************************************************)
(* Inputs: the calls, and the programs the calling goroutines run          *)
(***************************************************************************)
Callers == {"c1", "c2"}

\* Capacity of messageChan (NewLogger's msgChanSize).
MsgChanSize == 2

\* Number of system-call failures in one behaviour.
MaxFaults == 1

NilConfig ==
    [Level |-> Nil, MaxBufferSizeBytes |-> Nil, MaxFileSizeBytes |-> Nil,
     FlushInterval |-> Nil, DirectoryPath |-> Nil, ConsoleOut |-> Nil]

\* One call of the Logger API.
Op(op, level, code, timeout, cfg) ==
    [op |-> op, level |-> level, code |-> code, timeout |-> timeout, cfg |-> cfg]

NoOp == Op("none", NONE, 0, 0, NilConfig)
LogOp(level) == Op("Log", level, 0, 0, NilConfig)
FatalOp(code, timeout) == Op("Fatal", FATAL, code, timeout, NilConfig)
FlushOp == Op("Flush", NONE, 0, 0, NilConfig)
SyncFlushOp(timeout) == Op("SyncFlush", NONE, 0, timeout, NilConfig)
ShutdownOp(timeout) == Op("Shutdown", NONE, 0, timeout, NilConfig)
StartOp == Op("Start", NONE, 0, 0, NilConfig)
GetConfigCopyOp == Op("GetConfigCopy", NONE, 0, 0, NilConfig)

\* a(f) of the singleton: instanceGuard, then the call f makes on instance,
\* which is the next call of the goroutine's program.
GuardedOp == Op("a", NONE, 0, 0, NilConfig)

\* var lvl Level = level; err := lvl.FromString(levelStr)
FromStringOp(level, levelStr) ==
    [op |-> "FromString", level |-> level, code |-> 0, timeout |-> 0,
     cfg |-> NilConfig, levelStr |-> levelStr]

\* The caller's code assigning through the Level pointer of the Config that
\* GetConfigCopy returned: *cfg.Level = level.
WriteCopyOp(level) == Op("WriteCopy", level, 0, 0, NilConfig)
UpdateConfigOp(cfg) == Op("UpdateConfig", NONE, 0, 0, cfg)

\* UpdateConfig with one field set, as the Set* wrappers of blog.go call it.
SetLevel(l) == UpdateConfigOp([NilConfig EXCEPT !.Level = <<l>>])
SetMaxBufferSizeBytes(n) ==
    UpdateConfigOp([NilConfig EXCEPT !.MaxBufferSizeBytes = <<n>>])
SetMaxFileSizeBytes(n) ==
    UpdateConfigOp([NilConfig EXCEPT !.MaxFileSizeBytes = <<n>>])
SetFlushInterval(d) == UpdateConfigOp([NilConfig EXCEPT !.FlushInterval = <<d>>])
SetDirectoryPath(p) == UpdateConfigOp([NilConfig EXCEPT !.DirectoryPath = <<p>>])
SetConsole(k) == UpdateConfigOp([NilConfig EXCEPT !.ConsoleOut = <<k>>])

\* A Config for NewLogger.
Cfg(level, maxBuf, maxFile, interval, path, consoleOut) ==
    [Level |-> <<level>>, MaxBufferSizeBytes |-> <<maxBuf>>,
     MaxFileSizeBytes |-> <<maxFile>>, FlushInterval |-> <<interval>>,
     DirectoryPath |-> <<path>>, ConsoleOut |-> consoleOut]

\* A scenario: the Config given to NewLogger, the calls each goroutine
\* makes, in order, and whether strutil.Random may return a suffix that a
\* rotated file of the same second already has.
Scenario(cfg, p1, p2) ==
    [cfg |-> cfg, progs |-> [c1 |-> p1, c2 |-> p2], collide |-> FALSE]

(***************************************************************************)
(* State                                                                   *)
(***************************************************************************)
VARIABLES
    config,       \* Logger.config
    writeBuffer,  \* Logger.writeBuffer
    Running,      \* Logger.Running
    messageChan,  \* Logger.messageChan: the queued LogMessages
    files,        \* the file system under the valid directories
    console,      \* what was printed to the console sinks
    exit,         \* the process: NoExit, or the exit code
    exitBy,       \* who called os.Exit: "none", "run" or a caller
    run,          \* the run goroutine: [pc, done, ticker]
    callers,      \* the calling goroutines: [pc, op, elapsed, result, sent,
                  \* copy]; op is the call in progress or the last one made,
                  \* sent the LogMessages the goroutine has queued, copy the
                  \* Config GetConfigCopy returned to it last
    prog,         \* the calls each goroutine has still to make
    scenario,     \* the scenario that is run: NewLogger's Config and the
                  \* programs of the goroutines; it never changes
    nextId        \* identity of the next LogMessage accepted by messageChan

vars == <<config, writeBuffer, Running, messageChan, files, console, exit,
          exitBy, run, callers, prog, scenario, nextId>>

\* The engine record the Logger methods work on.
L == [config |-> config, writeBuffer |-> writeBuffer, files |-> files,
      console |-> console, exit |-> exit]

Commit(e) ==
    /\ config' = e.config
    /\ writeBuffer' = e.writeBuffer
    /\ files' = e.files
    /\ console' = e.console
    /\ exit' = e.exit
    /\ exitBy' = IF e.exit # exit THEN "run" ELSE exitBy

EngineUnchanged == UNCHANGED <<config, writeBuffer, files, console, exit, exitBy>>

\* Config.ApplyDefaults on a Config whose Level, sizes, interval and path
\* the caller has set; a nil ConsoleOut becomes &ConsoleLogger{} (L == nil).
DefaultValue ==
    [Level |-> DefaultLevel, MaxBufferSizeBytes |-> DefaultMaxBufferSizeBytes,
     MaxFileSizeBytes |-> DefaultMaxFileSizeBytes,
     FlushInterval |-> DefaultFlushInterval,
     DirectoryPath |-> DefaultDirectoryPath]

\* utils.SetDefaultIfNil: the value behind the pointer the field holds
\* after the call.
SetDefaultIfNil(field, default) == IF field = Nil THEN default ELSE field[1]

ApplyDefaults(cfg) ==
    [Level |-> SetDefaultIfNil(cfg.Level, DefaultLevel),
     MaxBufferSizeBytes |->
         SetDefaultIfNil(cfg.MaxBufferSizeBytes, DefaultMaxBufferSizeBytes),
     MaxFileSizeBytes |->
         SetDefaultIfNil(cfg.MaxFileSizeBytes, DefaultMaxFileSizeBytes),
     FlushInterval |-> SetDefaultIfNil(cfg.FlushInterval, DefaultFlushInterval),
     DirectoryPath |-> SetDefaultIfNil(cfg.DirectoryPath, DefaultDirectoryPath),
     ConsoleOut |-> IF cfg.ConsoleOut = Nil THEN NoSink ELSE cfg.ConsoleOut[1]]

\* NewLogger: the Logger it builds, after setPath.  When setPath fails the
\* caller gets (nil, err) instead of this Logger, and run is not started.
NewLogger(cfg) ==
    setPath([config |-> ApplyDefaults(cfg), writeBuffer |-> <<>>,
             files |-> [d \in ValidDirs |->
                           [exists |-> FALSE, latest |-> <<>>, rotated |-> <<>>]],
             console |-> <<>>, exit |-> NoExit],
            ApplyDefaults(cfg).DirectoryPath)

\* run's first statement: time.NewTicker panics on a non-positive interval.
StartRun(cfg) ==
    IF cfg.FlushInterval > 0
    THEN [pc |-> "select", done |-> "none", ticker |-> "on"]
    ELSE [pc |-> "panicked", done |-> "none", ticker |-> "off"]

\* NewLogger returned (nil, err): there is no Logger and no run goroutine.
NilLogger == [pc |-> "nil", done |-> "none", ticker |-> "off"]

InitWith(scenarios) ==
    \E s \in scenarios :
        /\ LET e == NewLogger(s.cfg)
           IN  /\ config = e.config
               /\ writeBuffer = e.writeBuffer
               /\ files = e.files
               /\ console = e.console
               /\ exit = e.exit
               /\ run = IF setPathFails(ApplyDefaults(s.cfg).DirectoryPath)
                        THEN NilLogger ELSE StartRun(e.config)
        /\ exitBy = "none"
        /\ Running = TRUE
        /\ messageChan = <<>>
        /\ callers = [c \in Callers |->
                         [pc |-> "idle", op |-> NoOp, elapsed |-> FALSE,
                          result |-> "none", sent |-> <<>>, copy |-> Nil,
                          lvl |-> NONE]]
        /\ prog = s.progs
        /\ scenario = s
        /\ nextId = 1

\* The process is alive: no os.Exit and no panic so far.
Alive ==
    /\ exit = NoExit /\ run.pc # "panicked"
    /\ \A c \in Callers : callers[c].pc # "panicked"

(***************************************************************************)
(* What the environment decides during a flush                             *)
(***************************************************************************)
NumFaults == Cardinality({i \in 1..Len(console) : console[i].kind = "diag"})

\* The clock at a rotation: the second of the newest rotated file, or a
\* later one.
LastTs(e) ==
    LET d == e.config.DirectoryPath
        r == IF d \in ValidDirs THEN e.files[d].rotated ELSE <<>>
    IN  IF r = <<>> THEN 0 ELSE r[Len(r)].name.ts

\* A suffix drawn by strutil.Random (64 random bits) repeats no earlier
\* draw of the same second.  Required of the environment except in the
\* scenarios that set collide.
FreshSuffix(e, now, rnd) ==
    LET d == e.config.DirectoryPath
    IN  d \in ValidDirs => ~NameExists(e.files[d].rotated,
                                     RotName(now, RandomSuffix[rnd]))

NoIO == [now |-> 0, rnd |-> 1, io |-> "ok"]

Envs(e) ==
    IF e.config.DirectoryPath = "" THEN {NoIO}
    ELSE LET draws == {nr \in {LastTs(e), LastTs(e) + 1} \X Suffixes :
                          scenario.collide \/ FreshSuffix(e, nr[1], nr[2])}
             ios == IF NumFaults < MaxFaults THEN IOOutcomes ELSE {"ok"}
         IN  {[now |-> nr[1], rnd |-> nr[2], io |-> io] :
                  nr \in draws, io \in ios}

(***************************************************************************)
(* The callers                                                             *)
(***************************************************************************)
NextOp(c, op) ==
    /\ Alive /\ callers[c].pc = "idle" /\ run.pc # "nil"
    /\ prog[c] # <<>> /\ Head(prog[c]).op = op
    /\ prog' = [prog EXCEPT ![c] = Tail(@)]
    /\ UNCHANGED scenario

Call(c, pc) ==
    callers' = [callers EXCEPT ![c] = [@ EXCEPT !.pc = pc, !.op = Head(prog[c]),
                                                !.elapsed = FALSE,
                                                !.result = "none"]]

Return(c, result) ==
    callers' = [callers EXCEPT ![c] = [@ EXCEPT !.pc = "idle", !.result = result]]

\* A method called on the nil *Logger that NewLogger returned with its
\* error: the first use of a field of l is a nil pointer dereference.
CallOnNil(c) ==
    /\ Alive /\ callers[c].pc = "idle" /\ run.pc = "nil"
    /\ prog[c] # <<>> /\ Head(prog[c]).op \notin {"FromString", "a"}
    /\ prog' = [prog EXCEPT ![c] = Tail(@)]
    /\ Call(c, "panicked")
    /\ UNCHANGED <<Running, messageChan, run, scenario, nextId>>
    /\ EngineUnchanged

\* instanceGuard: instance is nil when Init has not run or NewLogger
\* returned nil with its error; else Running is read under RunningMutex.
instanceGuard ==
    IF run.pc = "nil" THEN ErrUninitialized
    ELSE IF Running THEN NoErr ELSE ErrShutdown

\* a(f): when instanceGuard returns an error, a returns it and f is not
\* called; else f is called next, in a step of its own.
CallGuarded(c) ==
    /\ Alive /\ callers[c].pc = "idle"
    /\ Len(prog[c]) >= 2 /\ Head(prog[c]).op = "a"
    /\ prog' = [prog EXCEPT ![c] = IF instanceGuard = NoErr
                                   THEN Tail(@) ELSE Tail(Tail(@))]
    /\ callers' = [callers EXCEPT ![c] = [@ EXCEPT !.op = Head(prog[c]),
                                                   !.elapsed = FALSE,
                                                   !.result = instanceGuard]]
    /\ UNCHANGED <<Running, messageChan, run, scenario, nextId>>
    /\ EngineUnchanged

\* lvl.FromString(levelStr) on a Level variable of the caller; no Logger
\* is involved.
CallFromString(c) ==
    /\ Alive /\ callers[c].pc = "idle"
    /\ prog[c] # <<>> /\ Head(prog[c]).op = "FromString"
    /\ prog' = [prog EXCEPT ![c] = Tail(@)]
    /\ LET r == FromString(Head(prog[c]).level, Head(prog[c]).levelStr)
       IN  callers' = [callers EXCEPT ![c] = [@ EXCEPT !.op = Head(prog[c]),
                                                      !.elapsed = FALSE,
                                                      !.result = r.err,
                                                      !.lvl = r.l]]
    /\ UNCHANGED <<Running, messageChan, run, scenario, nextId>>
    /\ EngineUnchanged

\* Info, Debug, ...: qM builds the LogMessage, then sends it to messageChan.
CallLog(c) ==
    /\ NextOp(c, "Log")
    /\ Call(c, "qM")
    /\ UNCHANGED <<Running, messageChan, run, nextId>>
    /\ EngineUnchanged

\* Fatal: qM with level FATAL, then time.Sleep(timeout), then os.Exit.
CallFatal(c) ==
    /\ NextOp(c, "Fatal")
    /\ Call(c, "qM")
    /\ UNCHANGED <<Running, messageChan, run, nextId>>
    /\ EngineUnchanged

\* Defective variant of Enqueue: the send never blocks, the channel grows
\* beyond its capacity.
EnqueueUnbounded(c) ==
    /\ Alive /\ callers[c].pc = "qM"
    /\ LET m == [id |-> nextId, level |-> callers[c].op.level,
                 exitCode |-> callers[c].op.code]
       IN  /\ messageChan' = Append(messageChan, m)
           /\ callers' = [callers EXCEPT ![c] =
                  [@ EXCEPT !.pc = IF m.level = FATAL THEN "fatalSleep" ELSE "idle",
                            !.result = "queued",
                            !.sent = Append(@, [id |-> m.id, level |-> m.level,
                                                exitCode |-> m.exitCode,
                                                cfgLevel |-> config.Level])]]
    /\ nextId' = nextId + 1
    /\ UNCHANGED <<Running, run, prog, scenario>>
    /\ EngineUnchanged

\* l.messageChan <- m: blocks while the channel is full.
Enqueue(c) ==
    /\ Alive /\ callers[c].pc = "qM"
    /\ Len(messageChan) < MsgChanSize
    /\ LET m == [id |-> nextId, level |-> callers[c].op.level,
                 exitCode |-> callers[c].op.code]
       IN  /\ messageChan' = Append(messageChan, m)
           /\ callers' = [callers EXCEPT ![c] =
                  [@ EXCEPT !.pc = IF m.level = FATAL THEN "fatalSleep" ELSE "idle",
                            !.result = "queued",
                            \* with the level configured at that moment
                            !.sent = Append(@, [id |-> m.id, level |-> m.level,
                                                exitCode |-> m.exitCode,
                                                cfgLevel |-> config.Level])]]
    /\ nextId' = nextId + 1
    /\ UNCHANGED <<Running, run, prog, scenario>>
    /\ EngineUnchanged

\* Fatal after time.Sleep(timeout): prints to stdout and exits.
FatalExit(c) ==
    /\ Alive /\ callers[c].pc = "fatalSleep"
    /\ exit' = callers[c].op.code
    /\ exitBy' = c
    /\ console' = Append(console, [sink |-> StdoutSink, kind |-> "fatalfail",
                                   lines |-> <<>>])
    /\ UNCHANGED <<config, writeBuffer, Running, messageChan, files, run,
                   callers, prog, scenario, nextId>>

\* Flush, SyncFlush, Shutdown, GetConfigCopy, UpdateConfig: each call begins
\* by sending on an unbuffered channel, which run receives in its select.

\* Flush: l.flushSignal <- struct{}{}
CallFlush(c) ==
    /\ NextOp(c, "Flush")
    /\ Call(c, "sendFlush")
    /\ UNCHANGED <<Running, messageChan, run, nextId>>
    /\ EngineUnchanged

\* SyncFlush: l.syncFlushChan <- done
CallSyncFlush(c) ==
    /\ NextOp(c, "SyncFlush")
    /\ Call(c, "sendSync")
    /\ UNCHANGED <<Running, messageChan, run, nextId>>
    /\ EngineUnchanged

\* Shutdown: l.shutdownChan <- done
CallShutdown(c) ==
    /\ NextOp(c, "Shutdown")
    /\ Call(c, "sendShutdown")
    /\ UNCHANGED <<Running, messageChan, run, nextId>>
    /\ EngineUnchanged

\* GetConfigCopy: l.getConfigChan <- resp
CallGetConfigCopy(c) ==
    /\ NextOp(c, "GetConfigCopy")
    /\ Call(c, "sendGet")
    /\ UNCHANGED <<Running, messageChan, run, nextId>>
    /\ EngineUnchanged

\* The caller assigns through the Level pointer of its copy.
WriteCopy(c) ==
    /\ NextOp(c, "WriteCopy")
    /\ callers[c].copy # Nil
    /\ config' = [config EXCEPT ![callers[c].copy[1].ptr["Level"]] =
                                    Head(prog[c]).level]
    /\ callers' = [callers EXCEPT ![c] = [@ EXCEPT !.op = Head(prog[c]),
                                                   !.elapsed = FALSE,
                                                   !.result = "written"]]
    /\ UNCHANGED <<writeBuffer, files, console, exit, exitBy>>
    /\ UNCHANGED <<Running, messageChan, run, nextId>>

\* UpdateConfig: l.setConfigChan <- cfg
CallUpdateConfig(c) ==
    /\ NextOp(c, "UpdateConfig")
    /\ Call(c, "sendSet")
    /\ UNCHANGED <<Running, messageChan, run, nextId>>
    /\ EngineUnchanged

\* The timeout of a SyncFlush or Shutdown call runs out, counted from the
\* call, while the caller is still blocked in its send.
DeadlinePasses(c) ==
    /\ Alive /\ callers[c].pc \in {"sendSync", "sendShutdown"}
    /\ callers[c].op.timeout > 0 /\ ~callers[c].elapsed
    /\ callers' = [callers EXCEPT ![c].elapsed = TRUE]
    /\ UNCHANGED <<Running, messageChan, run, prog, scenario, nextId>>
    /\ EngineUnchanged

\* Defective variant of Start: run is launched without looking at Running.
StartUnguarded(c) ==
    /\ NextOp(c, "Start")
    /\ Running' = TRUE
    /\ run' = StartRun(config)
    /\ callers' = [callers EXCEPT ![c] = [@ EXCEPT !.op = Head(prog[c]),
                                                   !.elapsed = FALSE,
                                                   !.result = "started"]]
    /\ UNCHANGED <<messageChan, nextId>>
    /\ EngineUnchanged

\* Defective variant of Start: the relaunched run gets a new, empty
\* messageChan.
StartFreshQueue(c) ==
    /\ NextOp(c, "Start")
    /\ IF ~Running
       THEN /\ Running' = TRUE
            /\ run' = StartRun(config)
            /\ messageChan' = <<>>
       ELSE UNCHANGED <<Running, run, messageChan>>
    /\ callers' = [callers EXCEPT ![c] = [@ EXCEPT !.op = Head(prog[c]),
                                                   !.elapsed = FALSE,
                                                   !.result = "started"]]
    /\ UNCHANGED nextId
    /\ EngineUnchanged

\* Start: under RunningMutex.
Start(c) ==
    /\ NextOp(c, "Start")
    /\ IF ~Running
       THEN /\ Running' = TRUE
            /\ run' = StartRun(config)
       ELSE UNCHANGED <<Running, run>>
    /\ callers' = [callers EXCEPT ![c] = [@ EXCEPT !.op = Head(prog[c]),
                                                   !.elapsed = FALSE,
                                                   !.result = "started"]]
    /\ UNCHANGED <<messageChan, nextId>>
    /\ EngineUnchanged

(***************************************************************************)
(* run: the select loop                                                    *)
(***************************************************************************)
AtSelect == Alive /\ run.pc = "select"

\* The engines a flush can leave, over what the environment decides.
Flushed == {flush(L, env) : env \in Envs(L)}

\* case m := <-l.messageChan
RecvMessage ==
    /\ AtSelect /\ messageChan # <<>>
    /\ \E e \in {handleMessage(L, Head(messageChan), env) : env \in Envs(L)} :
           Commit(e)
    /\ messageChan' = Tail(messageChan)
    /\ UNCHANGED <<Running, run, callers, prog, scenario, nextId>>

\* case <-l.flushSignal
RecvFlushSignal(c) ==
    /\ AtSelect /\ callers[c].pc = "sendFlush"
    /\ \E e \in Flushed : Commit(e)
    /\ Return(c, "sent")
    /\ UNCHANGED <<Running, messageChan, run, prog, scenario, nextId>>

\* case <-ticker.C.  A ticker stopped by an interval update may still hold
\* one tick in its channel.
TimerFire ==
    /\ AtSelect /\ run.ticker \in {"on", "stopped"}
    /\ \E e \in Flushed : Commit(e)
    /\ run' = [run EXCEPT !.ticker = IF @ = "stopped" THEN "off" ELSE @]
    /\ UNCHANGED <<Running, messageChan, callers, prog, scenario, nextId>>

\* case done := <-l.syncFlushChan: flush, then done <- struct{}{} is pending
RecvSyncFlush(c) ==
    /\ AtSelect /\ callers[c].pc = "sendSync"
    /\ \E e \in Flushed : Commit(e)
    /\ run' = [run EXCEPT !.pc = "sendSyncDone", !.done = c]
    /\ callers' = [callers EXCEPT ![c].pc = "waitSync"]
    /\ UNCHANGED <<Running, messageChan, prog, scenario, nextId>>

\* done <- struct{}{} meets SyncFlush's case <-done
SyncFlushDone(c) ==
    /\ Alive /\ run.pc = "sendSyncDone" /\ run.done = c
    /\ callers[c].pc = "waitSync"
    /\ run' = [run EXCEPT !.pc = "select", !.done = "none"]
    /\ Return(c, "done")
    /\ UNCHANGED <<Running, messageChan, prog, scenario, nextId>>
    /\ EngineUnchanged

\* SyncFlush's case <-time.After(timeout)
SyncFlushTimeout(c) ==
    /\ Alive /\ callers[c].pc = "waitSync"
    /\ Return(c, "timeout")
    /\ UNCHANGED <<Running, messageChan, run, prog, scenario, nextId>>
    /\ EngineUnchanged

\* Defective variant of RecvShutdown: Running is cleared when the request
\* is received, before done is signalled.
RecvShutdownStopsFirst(c) ==
    /\ AtSelect /\ callers[c].pc = "sendShutdown"
    /\ \E e \in Flushed : Commit(e)
    /\ run' = [run EXCEPT !.pc = "sendShutdownDone", !.done = c]
    /\ callers' = [callers EXCEPT ![c].pc = "waitShutdown"]
    /\ Running' = FALSE
    /\ UNCHANGED <<messageChan, prog, scenario, nextId>>

\* case done := <-l.shutdownChan: flush, then done <- struct{}{} is pending
RecvShutdown(c) ==
    /\ AtSelect /\ callers[c].pc = "sendShutdown"
    /\ \E e \in Flushed : Commit(e)
    /\ run' = [run EXCEPT !.pc = "sendShutdownDone", !.done = c]
    /\ callers' = [callers EXCEPT ![c].pc = "waitShutdown"]
    /\ UNCHANGED <<Running, messageChan, prog, scenario, nextId>>

\* done <- struct{}{} meets Shutdown's <-done
ShutdownDone(c) ==
    /\ Alive /\ run.pc = "sendShutdownDone" /\ run.done = c
    /\ callers[c].pc = "waitShutdown"
    /\ run' = [run EXCEPT !.pc = "setRunning", !.done = "none"]
    /\ IF callers[c].op.timeout = 0
       THEN Return(c, "nil")
       ELSE callers' = [callers EXCEPT ![c].pc = "lockRunning",
                                       ![c].result = "done"]
    /\ UNCHANGED <<Running, messageChan, prog, scenario, nextId>>
    /\ EngineUnchanged

\* Shutdown's case <-time.After(timeout)
ShutdownTimeout(c) ==
    /\ Alive /\ callers[c].pc = "waitShutdown"
    /\ callers[c].op.timeout > 0
    /\ callers' = [callers EXCEPT ![c].pc = "lockRunning",
                                  ![c].result = "timeout"]
    /\ UNCHANGED <<Running, messageChan, run, prog, scenario, nextId>>
    /\ EngineUnchanged

\* Shutdown's return under RunningMutex: an error when Running is still set.
\* The result records whether done had been received.
ShutdownReturn(c) ==
    /\ Alive /\ callers[c].pc = "lockRunning"
    /\ Return(c, IF Running
                 THEN (IF callers[c].result = "done"
                       THEN "errAfterDone" ELSE "errTimeout")
                 ELSE "nil")
    /\ UNCHANGED <<Running, messageChan, run, prog, scenario, nextId>>
    /\ EngineUnchanged

\* run after the shutdown reply: l.Running = false under the mutex, return.
SetNotRunning ==
    /\ Alive /\ run.pc = "setRunning"
    /\ Running' = FALSE
    /\ run' = [run EXCEPT !.pc = "returned", !.ticker = "off"]
    /\ UNCHANGED <<messageChan, callers, prog, scenario, nextId>>
    /\ EngineUnchanged

\* The fields of Config that point to a scalar; the live value of field f
\* is the cell *l.config.f, which run only ever assigns through the pointer.
ConfigCells ==
    {"Level", "MaxBufferSizeBytes", "MaxFileSizeBytes", "FlushInterval",
     "DirectoryPath"}

\* resp <- *l.config: the struct is copied, so the copy holds the pointers
\* of l.config; a pointer is the name of the cell it points to.
ConfigCopy == [f \in ConfigCells |-> f]

\* The value read through pointer ptr.
Deref(ptr) == config[ptr]

\* The fields NewLogger found nil: ApplyDefaults made them point to the
\* package variables, so the cell of such a field is the package variable.
Defaulted == {f \in ConfigCells : scenario.cfg[f] = Nil}

\* The present value of the package variable that is the default of f.
DefaultNow(f) == IF f \in Defaulted THEN config[f] ELSE DefaultValue[f]

\* The Config of a second Logger that NewLogger built from a Config with
\* nil fields and that has processed no update: each field points to the
\* package variable.  A Logger built later gets the same.
otherConfig == [f \in ConfigCells |-> DefaultNow(f)]

\* case resp := <-l.getConfigChan: the caller is waiting on resp.  seen
\* records what the caller reads through the copy when it gets it.
RecvGetConfig(c) ==
    /\ AtSelect /\ callers[c].pc = "sendGet"
    /\ callers' = [callers EXCEPT ![c] =
           [@ EXCEPT !.pc = "idle", !.result = "config",
                     !.copy = <<[ptr |-> ConfigCopy,
                                 seen |-> [f \in ConfigCells |->
                                              Deref(ConfigCopy[f])]]>>]]
    /\ UNCHANGED <<Running, messageChan, run, prog, scenario, nextId>>
    /\ EngineUnchanged

\* The ticker after the loop head has served restartTickerReq.
RestartTicker(ticker, interval) ==
    IF interval > 0 THEN "on"
    ELSE IF ticker = "on" THEN "stopped" ELSE ticker

\* case cfg := <-l.setConfigChan
RecvSetConfig(c) ==
    /\ AtSelect /\ callers[c].pc = "sendSet"
    /\ LET cfg == callers[c].op.cfg
       IN  /\ Commit(updateConfig(L, cfg))
           /\ run' = IF cfg.FlushInterval # Nil
                     THEN [run EXCEPT !.ticker =
                              RestartTicker(@, cfg.FlushInterval[1])]
                     ELSE run
    /\ Return(c, "sent")
    /\ UNCHANGED <<Running, messageChan, prog, scenario, nextId>>

Next ==
    \/ \E c \in Callers : CallLog(c)
    \/ \E c \in Callers : CallFatal(c)
    \/ \E c \in Callers : Enqueue(c)
    \/ \E c \in Callers : FatalExit(c)
    \/ \E c \in Callers : CallFlush(c)
    \/ \E c \in Callers : CallSyncFlush(c)
    \/ \E c \in Callers : CallShutdown(c)
    \/ \E c \in Callers : CallGetConfigCopy(c)
    \/ \E c \in Callers : CallUpdateConfig(c)
    \/ \E c \in Callers : DeadlinePasses(c)
    \/ \E c \in Callers : Start(c)
    \/ RecvMessage
    \/ \E c \in Callers : RecvFlushSignal(c)
    \/ TimerFire
    \/ \E c \in Callers : RecvSyncFlush(c)
    \/ \E c \in Callers : SyncFlushDone(c)
    \/ \E c \in Callers : SyncFlushTimeout(c)
    \/ \E c \in Callers : RecvShutdown(c)
    \/ \E c \in Callers : ShutdownDone(c)
    \/ \E c \in Callers : ShutdownTimeout(c)
    \/ \E c \in Callers : ShutdownReturn(c)
    \/ SetNotRunning
    \/ \E c \in Callers : RecvGetConfig(c)
    \/ \E c \in Callers : RecvSetConfig(c)
    \/ \E c \in Callers : CallOnNil(c)
    \/ \E c \in Callers : WriteCopy(c)
    \/ \E c \in Callers : CallFromString(c)
    \/ \E c \in Callers : CallGuarded(c)

(***************************************************************************)
(* Scenarios and specifications                                            *)
(***************************************************************************)
\* Every call of the API, with a second goroutine logging; and a call after
\* NewLogger was given a directory that does not exist.
CoverScenarios ==
    {Scenario(Cfg(INFO, 2, 2, 1, "d1", Nil),
              <<LogOp(INFO), FlushOp, GetConfigCopyOp, WriteCopyOp(INFO),
                SetMaxBufferSizeBytes(1),
                SyncFlushOp(1), ShutdownOp(1), StartOp>>,
              <<LogOp(INFO), FatalOp(1, 1)>>),
     Scenario(Cfg(INFO, 2, 2, 1, "bad", Nil),
              <<FromStringOp(INFO, <<"d", "e", "b", "u", "g">>), LogOp(INFO)>>,
              <<GuardedOp, FlushOp>>)}

\* One log call of every level against every configured level, with file
\* output on or off and with or without a console sink.
FilterScenarios ==
    {Scenario(Cfg(m, 2, 2, 1, p, k), <<op>>, <<>>) :
        m \in Levels, p \in {"", "d1"}, k \in {Nil, <<UserSink>>},
        op \in {LogOp(s) : s \in EventLevels \ {FATAL}} \cup {FatalOp(1, 1)}}

InitFilter == InitWith(FilterScenarios \cup CoverScenarios)

SpecFilter == InitFilter /\ [][Next]_vars

\* Two goroutines log while one of them flushes, reconfigures or shuts down;
\* small buffer and file sizes make the flushes rotate.
OrderScenarios ==
    {Scenario(Cfg(INFO, bf[1], bf[2], 1, "d1", Nil),
              <<LogOp(INFO), LogOp(DEBUG), LogOp(WARN), last>>,
              <<LogOp(ERROR), LogOp(INFO)>>) :
        bf \in {<<1, 1>>, <<1, 2>>, <<2, 1>>},
        last \in {FlushOp, SyncFlushOp(1), ShutdownOp(0), SetMaxFileSizeBytes(1),
                  SetFlushInterval(0)}}

\* A goroutine logs and then calls SyncFlush, alone or beside a second
\* logging goroutine.
SyncScenarios ==
    {Scenario(Cfg(INFO, b, f, 1, "d1", Nil), <<LogOp(INFO), SyncFlushOp(1)>>, p2) :
        b \in {1, 2}, f \in {1, 2}, p2 \in {<<>>, <<LogOp(INFO), LogOp(WARN)>>}}

\* With level INFO: Debug, SetLevel(DEBUG), Debug.
LevelScenarios ==
    {Scenario(Cfg(INFO, 2, 2, 1, "d1", k),
              <<LogOp(DEBUG), SetLevel(DEBUG), LogOp(DEBUG)>>, <<>>) :
        k \in {Nil, <<UserSink>>}}

\* Fewer Log calls than MaxBufferSizeBytes and no other call.
RoundTripScenarios ==
    {Scenario(Cfg(INFO, 3, f, 1, "d1", Nil), p1, p2) :
        f \in {1, 3},
        p1 \in {<<LogOp(INFO)>>, <<LogOp(INFO), LogOp(WARN)>>},
        p2 \in {<<>>, <<LogOp(ERROR)>>}}

Init ==
    InitWith(OrderScenarios \cup SyncScenarios \cup LevelScenarios
             \cup RoundTripScenarios \cup CoverScenarios)

Spec == Init /\ [][Next]_vars

\* SyncFlush and Shutdown with timeout 0 or not, followed by further calls.
LifecycleScenarios ==
    {Scenario(Cfg(INFO, 2, 2, 1, "d1", Nil), p1, p2) :
        p1 \in UNION {{<<SyncFlushOp(t)>>,
                       <<ShutdownOp(t)>>,
                       <<LogOp(INFO), SyncFlushOp(t), LogOp(INFO), FlushOp>>,
                       <<ShutdownOp(t), StartOp, SyncFlushOp(1)>>,
                       <<ShutdownOp(t), SyncFlushOp(1)>>} : t \in {0, 1}},
        p2 \in {<<>>, <<LogOp(INFO)>>, <<SyncFlushOp(1)>>}}

InitLifecycle == InitWith(LifecycleScenarios \cup CoverScenarios)

SpecLifecycle == InitLifecycle /\ [][Next]_vars

\* Fatal with timeout 0 or not, at level FATAL, where FATAL passes the
\* level test of handleMessage.
FatalScenarios ==
    {Scenario(Cfg(FATAL, b, 2, 1, p, Nil), <<FatalOp(2, t)>>, p2) :
        b \in {1, 2}, p \in {"", "d1"}, t \in {0, 1},
        p2 \in {<<>>, <<LogOp(FATAL)>>, <<FlushOp>>}}

InitFatal == InitWith(FatalScenarios \cup CoverScenarios)

SpecFatal == InitFatal /\ [][Next]_vars

\* Two goroutines log into a buffer of one or three lines and a file of one
\* or two lines, with or without a console sink of the caller; the first
\* goroutine then flushes or sets the directory path.
FaultScenarios ==
    {Scenario(Cfg(INFO, b, f, 1, "d1", k),
              <<LogOp(INFO), LogOp(WARN), last>>, <<LogOp(ERROR)>>) :
        b \in {1, 3}, f \in {1, 2}, k \in {Nil, <<UserSink>>},
        last \in {FlushOp, SetDirectoryPath("bad"), SetDirectoryPath("d1/")}}

InitFault == InitWith(FaultScenarios \cup CoverScenarios)

SpecFault == InitFault /\ [][Next]_vars

\* NewLogger with a directory path that is empty, exists or does not
\* exist, with or without a console sink, followed by log calls.
ConstructScenarios ==
    {Scenario(Cfg(INFO, 2, 2, 1, p, k), <<LogOp(INFO), LogOp(ERROR)>>, p2) :
        p \in {"", "d1", "d1/", "bad", "bad/"}, k \in {Nil, <<UserSink>>},
        p2 \in {<<>>, <<LogOp(WARN)>>}}

InitConstruct == InitWith(ConstructScenarios \cup CoverScenarios)

SpecConstruct == InitConstruct /\ [][Next]_vars

\* Most Info calls of a rotation scenario.
MaxLogs == 4

\* MaxBufferSizeBytes and MaxFileSizeBytes of one line: every line fills the
\* buffer and the file.  One goroutine logs K lines and calls Shutdown.
RotateScenarios ==
    {[Scenario(Cfg(INFO, 1, 1, 1, "d1", Nil),
               [i \in 1..(K + 1) |-> IF i <= K THEN LogOp(INFO) ELSE ShutdownOp(0)],
               <<>>) EXCEPT !.collide = c] :
        K \in 1..MaxLogs, c \in BOOLEAN}

InitRotate == InitWith(RotateScenarios \cup CoverScenarios)

SpecRotate == InitRotate /\ [][Next]_vars

\* A goroutine flushes twice in a row, by SyncFlush or by Flush, on a
\* buffer that is empty or that its first flush empties.
IdleScenarios ==
    {Scenario(Cfg(INFO, 2, 2, 1, p, Nil), p1, p2) :
        p \in {"", "d1"},
        p1 \in UNION {{<<SyncFlushOp(t), SyncFlushOp(t)>>,
                       <<LogOp(INFO), SyncFlushOp(t), SyncFlushOp(t)>>} :
                          t \in {0, 1}}
               \cup {<<FlushOp, FlushOp>>},
        p2 \in {<<>>, <<FlushOp>>}}

InitIdle == InitWith(IdleScenarios \cup CoverScenarios)

SpecIdle == InitIdle /\ [][Next]_vars

\* One UpdateConfig with a single field set, between two log calls, with
\* or without a console sink; a second goroutine may read the Config.
UpdateScenarios ==
    {Scenario(Cfg(INFO, 2, 2, 1, "d1", k), <<LogOp(INFO), upd, LogOp(WARN)>>, p2) :
        k \in {Nil, <<UserSink>>},
        upd \in {SetLevel(DEBUG), SetMaxBufferSizeBytes(1), SetMaxFileSizeBytes(1),
                 SetFlushInterval(2), SetFlushInterval(0), SetDirectoryPath(""),
                 SetDirectoryPath("bad"), SetDirectoryPath("d1/"),
                 SetConsole(UserSink), SetConsole(NoSink)},
        p2 \in {<<>>, <<GetConfigCopyOp>>}}

InitUpdate == InitWith(UpdateScenarios \cup CoverScenarios)

SpecUpdate == InitUpdate /\ [][Next]_vars

\* A goroutine gets a copy of the Config and logs or assigns through the
\* copy, while the other goroutine updates the Config or logs.
CopyScenarios ==
    {Scenario(Cfg(INFO, 2, 2, 1, "d1", Nil), p1, p2) :
        p1 \in {<<GetConfigCopyOp, LogOp(INFO)>>,
                <<GetConfigCopyOp, WriteCopyOp(DEBUG), LogOp(DEBUG)>>,
                <<GetConfigCopyOp, WriteCopyOp(NONE), LogOp(INFO)>>},
        p2 \in {<<SetLevel(DEBUG)>>, <<SetMaxBufferSizeBytes(1)>>,
                <<SetMaxFileSizeBytes(1)>>, <<SetFlushInterval(2)>>,
                <<SetDirectoryPath("")>>, <<SetDirectoryPath("bad")>>,
                <<LogOp(INFO), LogOp(WARN)>>}}

InitCopy == InitWith(CopyScenarios \cup CoverScenarios)

SpecCopy == InitCopy /\ [][Next]_vars

\* FlushInterval 0 or 1 at NewLogger; the goroutine logs, sets the interval,
\* logs again, and may shut the Logger down and start it again.
IntervalScenarios ==
    {Scenario(Cfg(INFO, 3, 3, d0, "d1", Nil), p1, <<>>) :
        d0 \in {0, 1},
        p1 \in {<<LogOp(INFO), SyncFlushOp(1)>>}
               \cup UNION {{<<LogOp(INFO), SetFlushInterval(d), LogOp(WARN)>>,
                            <<LogOp(INFO), SetFlushInterval(d), LogOp(WARN),
                              SetFlushInterval(1 - d), LogOp(ERROR)>>,
                            <<SetFlushInterval(d), LogOp(INFO), ShutdownOp(0),
                              StartOp, LogOp(WARN), FlushOp>>} : d \in {0, 1}}}

InitInterval == InitWith(IntervalScenarios \cup CoverScenarios)

SpecInterval == InitInterval /\ [][Next]_vars

\* A goroutine logs, flushes or updates one field of the Config, calls
\* Shutdown and Start and logs again; a second goroutine may log.
RestartScenarios ==
    {Scenario(Cfg(INFO, 3, 2, 1, "d1", Nil),
              <<LogOp(INFO), upd, ShutdownOp(1), StartOp, LogOp(WARN), FlushOp>>, p2) :
        upd \in {FlushOp, SetLevel(DEBUG), SetMaxFileSizeBytes(1),
                 SetFlushInterval(2), SetDirectoryPath(""),
                 SetDirectoryPath("bad"), SetDirectoryPath("d1/")},
        p2 \in {<<>>, <<LogOp(ERROR)>>}}

InitRestart == InitWith(RestartScenarios \cup CoverScenarios)

SpecRestart == InitRestart /\ [][Next]_vars

\* Two goroutines call Start and Shutdown in different orders, with a
\* Shutdown timeout of 0 or not.
StartScenarios ==
    {Scenario(Cfg(INFO, 2, 2, 1, "d1", Nil), p1, p2) :
        p1 \in UNION {{<<ShutdownOp(t), StartOp, LogOp(INFO), FlushOp>>,
                       <<StartOp, ShutdownOp(t), StartOp>>,
                       <<LogOp(INFO), ShutdownOp(t), StartOp, StartOp>>} :
                          t \in {0, 1}},
        p2 \in {<<StartOp>>, <<StartOp, LogOp(WARN)>>, <<ShutdownOp(1), StartOp>>,
                <<LogOp(WARN), StartOp, ShutdownOp(1)>>}}

InitStart == InitWith(StartScenarios \cup CoverScenarios)

SpecStart == InitStart /\ [][Next]_vars

\* File output is off from NewLogger on, or is turned off by an update
\* after a line was buffered; then a goroutine logs and flushes, calls
\* SyncFlush or Shutdown, or logs at FATAL.
DisabledScenarios ==
    {Scenario(Cfg(INFO, 3, 2, 1, p, k),
              <<LogOp(INFO), SetDirectoryPath(""), LogOp(WARN), last>>, p2) :
        p \in {"", "d1"}, k \in {Nil, <<UserSink>>},
        last \in {FlushOp, SyncFlushOp(1), ShutdownOp(1), FatalOp(1, 1)},
        p2 \in {<<>>, <<LogOp(ERROR)>>}}

InitDisabled == InitWith(DisabledScenarios \cup CoverScenarios)

SpecDisabled == InitDisabled /\ [][Next]_vars

\* MaxFileSizeBytes is 0 at NewLogger, or is set to 0 after a line was
\* flushed; goroutines log and flush before and after.
OverflowScenarios ==
    {Scenario(Cfg(INFO, b, 0, 1, "d1", k),
              <<LogOp(INFO), LogOp(WARN), FlushOp, LogOp(ERROR), FlushOp>>, p2) :
        b \in {1, 3}, k \in {Nil, <<UserSink>>}, p2 \in {<<>>, <<LogOp(INFO)>>}}
    \cup
    {Scenario(Cfg(INFO, 1, 2, 1, "d1", Nil),
              <<LogOp(INFO), SetMaxFileSizeBytes(0), LogOp(WARN), LogOp(ERROR),
                FlushOp>>, p2) :
        p2 \in {<<>>, <<LogOp(INFO)>>}}

InitOverflow == InitWith(OverflowScenarios \cup CoverScenarios)

SpecOverflow == InitOverflow /\ [][Next]_vars

\* File output goes off through a failing flush, an update with an invalid
\* or empty path, or an empty path at NewLogger; a later update carries a
\* path that exists, does not exist or is empty, and more lines follow.
StickyScenarios ==
    {Scenario(Cfg(INFO, b, 2, 1, p0, k),
              <<LogOp(INFO), LogOp(WARN), SetDirectoryPath(p), LogOp(ERROR),
                FlushOp>>, p2) :
        b \in {1, 3}, p0 \in {"", "d1"}, k \in {Nil, <<UserSink>>},
        p \in {"d1", "d1/", "bad", ""}, p2 \in {<<>>, <<LogOp(INFO)>>}}
    \cup
    {Scenario(Cfg(INFO, 3, 2, 1, "d1", Nil),
              <<LogOp(INFO), SetDirectoryPath(p), LogOp(WARN),
                SetDirectoryPath("d1"), LogOp(ERROR), FlushOp>>, <<>>) :
        p \in {"bad", ""}}

InitSticky == InitWith(StickyScenarios \cup CoverScenarios)

SpecSticky == InitSticky /\ [][Next]_vars

\* A goroutine logs, logs again or updates the directory path, and calls
\* SyncFlush; a second goroutine may log.
AckScenarios ==
    {Scenario(Cfg(INFO, b, f, 1, "d1", k),
              <<LogOp(INFO), mid, SyncFlushOp(1)>>, p2) :
        b \in {1, 3}, f \in {1, 2}, k \in {Nil, <<UserSink>>},
        mid \in {LogOp(WARN), SetDirectoryPath("bad"), SetDirectoryPath(""),
                 SetDirectoryPath("d1/")},
        p2 \in {<<>>, <<LogOp(ERROR)>>}}

InitAck == InitWith(AckScenarios \cup CoverScenarios)

SpecAck == InitAck /\ [][Next]_vars

\* NewLogger with every field set, with Level and DirectoryPath set (as
\* the singleton's Init does), or with no field set; the goroutine logs,
\* updates one field and logs again.
IsolationScenarios ==
    {Scenario(cfg, <<LogOp(INFO), upd, LogOp(WARN), FlushOp>>, p2) :
        cfg \in {Cfg(INFO, 2, 2, 1, "d1", Nil),
                 [NilConfig EXCEPT !.Level = <<INFO>>, !.DirectoryPath = <<"d1">>],
                 NilConfig},
        upd \in {SetLevel(DEBUG), SetMaxBufferSizeBytes(1), SetMaxFileSizeBytes(1),
                 SetFlushInterval(2), SetDirectoryPath("bad"),
                 SetDirectoryPath("d1"), FlushOp},
        p2 \in {<<>>, <<LogOp(ERROR)>>}}

InitIsolation == InitWith(IsolationScenarios \cup CoverScenarios)

SpecIsolation == InitIsolation /\ [][Next]_vars

\* A goroutine calls Shutdown, logs while run is returning or has returned,
\* calls Start and logs again; a second goroutine may log meanwhile.
QueueScenarios ==
    {Scenario(Cfg(INFO, 3, 2, 1, "d1", Nil),
              <<ShutdownOp(t), LogOp(WARN)>> \o rest, p2) :
        t \in {0, 1},
        rest \in {<<StartOp, LogOp(INFO), FlushOp>>,
                  <<LogOp(ERROR), StartOp, LogOp(INFO), SyncFlushOp(0)>>},
        p2 \in {<<>>, <<LogOp(ERROR)>>, <<LogOp(ERROR), LogOp(INFO)>>}}

InitQueue == InitWith(QueueScenarios \cup CoverScenarios)

SpecQueue == InitQueue /\ [][Next]_vars

\* The singleton: Init sets Level and DirectoryPath only; every call goes
\* through a.  A goroutine calls Cleanup and then another wrapper; a second
\* goroutine may call a wrapper meanwhile.  With "bad", NewLogger returns
\* nil and instance stays nil.
GuardScenarios ==
    {Scenario([NilConfig EXCEPT !.Level = <<INFO>>, !.DirectoryPath = <<path>>],
              <<GuardedOp, LogOp(INFO), GuardedOp, ShutdownOp(t), GuardedOp, f>>,
              p2) :
        path \in {"d1", "bad"}, t \in {0, 1},
        f \in {LogOp(WARN), FlushOp, SyncFlushOp(0), SyncFlushOp(1),
               SetLevel(DEBUG), ShutdownOp(1)},
        p2 \in {<<>>, <<GuardedOp, LogOp(ERROR)>>, <<GuardedOp, FlushOp>>,
                <<GuardedOp, SetDirectoryPath("")>>,
                <<GuardedOp, ShutdownOp(1)>>}}

InitGuard == InitWith(GuardScenarios \cup CoverScenarios)

SpecGuard == InitGuard /\ [][Next]_vars

\* The name of a level with each of its letters in either case.
CaseVariants(str) ==
    {[i \in 1..Len(str) |-> IF i \in S THEN ToLowerRune(str[i]) ELSE str[i]] :
        S \in SUBSET (1..Len(str))}

\* Texts that name no level.
OtherTexts ==
    {<<>>, <<"i", "n", "v", "a", "l", "i", "d">>, <<"I", "N", "F">>,
     <<"I", "N", "F", "O", "S">>, <<" ", "i", "n", "f", "o">>, <<"?">>,
     <<"3">>, <<"w", "a", "r", "n", "i", "n", "g">>}

LevelTexts == UNION {CaseVariants(String(l)) : l \in Levels} \cup OtherTexts

\* A goroutine sets a Level variable to any level and calls FromString on
\* it with the name of a level in any letter case, or with another text.
ParseScenarios ==
    {Scenario(Cfg(INFO, 2, 2, 1, "", Nil), <<FromStringOp(l, str)>>, <<>>) :
        l \in Levels, str \in LevelTexts}

InitParse == InitWith(ParseScenarios \cup CoverScenarios)

SpecParse == InitParse /\ [][Next]_vars

(***************************************************************************)
(* Observations                                                            *)
(***************************************************************************)
\* The lines of a directory, rotated files first, in rotation order.
LinesOf(dirFiles) ==
    LET cat[i \in 0..Len(dirFiles.rotated)] ==
            IF i = 0 THEN <<>> ELSE cat[i - 1] \o dirFiles.rotated[i].content
    IN  cat[Len(dirFiles.rotated)] \o dirFiles.latest

DirLines(d) == LinesOf(files[d])

Ids(lines) == {lines[i].id : i \in 1..Len(lines)}

InFiles(id) == \E d \in ValidDirs : id \in Ids(DirLines(d))

InConsole(id) == \E i \in 1..Len(console) : id \in Ids(console[i].lines)

\* The line of LogMessage id is in the write buffer, in a file or on the
\* console, in engine e.
EmittedIn(e, id) ==
    \/ id \in Ids(e.writeBuffer)
    \/ \E d \in ValidDirs : id \in Ids(LinesOf(e.files[d]))
    \/ \E i \in 1..Len(e.console) : id \in Ids(e.console[i].lines)

Emitted(id) == EmittedIn(L, id)

\* The LogMessages accepted by messageChan so far.
Sent == UNION {{callers[c].sent[i] : i \in 1..Len(callers[c].sent)} : c \in Callers}

\* Those run has taken out of messageChan.
Handled == {m \in Sent : m.id \notin Ids(messageChan)}

\* Level s is at least as severe as the configured minimum m.
AtLeastAsSevere(s, m) == m # NONE /\ s <= m

IdSeq(lines) == [i \in 1..Len(lines) |-> lines[i].id]

Increasing(seq) == \A i, j \in 1..Len(seq) : i < j => seq[i] < seq[j]

\* The calls of the scenario.
Ops ==
    UNION {{scenario.progs[c][i] : i \in 1..Len(scenario.progs[c])} : c \in Callers}

\* No call of the scenario changes the level or the directory path.
Stable == \A o \in Ops : o.cfg.Level = Nil /\ o.cfg.DirectoryPath = Nil

\* No flush has failed: handleFlushError has printed no diagnostic.
NoFault == NumFaults = 0

\* File output is on, into the directory NewLogger was given.
FileOutput == config.DirectoryPath = "d1"

\* The LogMessages run has handled that pass handleMessage's level test.
HandledPassing == {m \in Handled : ~Filtered(config.Level, m.level)}

(***************************************************************************)
(* C1: when run takes a LogMessage of level s out of messageChan while the *)
(* configured level is m, the line is emitted (to the buffer, a file or    *)
(* the console) if and only if s is FATAL or s is at least as severe as m. *)
(* The code drops a FATAL message whenever m is below FATAL.               *)
(***************************************************************************)
C1_LevelFilter ==
    [][IF messageChan # <<>> /\ messageChan' = Tail(messageChan)
          /\ (config.DirectoryPath # "" \/ config.ConsoleOut # NoSink)
       THEN LET m == Head(messageChan)
            IN  EmittedIn(L', m.id) <=>
                  (m.level = FATAL \/ AtLeastAsSevere(m.level, config.Level))
       ELSE TRUE]_vars

\* run has handled a FATAL message under a level between ERROR and DEBUG
\* and has emitted nothing; the process is still alive.
C1_FatalDropped ==
    \E m \in Handled :
        /\ m.level = FATAL /\ m.cfgLevel \in {ERROR, WARN, INFO, DEBUG}
        /\ config.Level = m.cfgLevel
        /\ ~Emitted(m.id) /\ exit = NoExit

LastSent(c) == callers[c].sent[Len(callers[c].sent)]

\* Goroutine c has logged an INFO event under level INFO with file output
\* on, and its call in progress is SyncFlush.
C3_Case(c) ==
    /\ Stable /\ NoFault /\ FileOutput /\ config.Level = INFO
    /\ callers[c].op.op = "SyncFlush"
    /\ callers[c].sent # <<>> /\ LastSent(c).level = INFO

(***************************************************************************)
(* C3 as stated: when a SyncFlush that follows a Log call returns          *)
(* acknowledged (the step SyncFlushDone), latest.log holds the line of the *)
(* logged event.  run's select may take the SyncFlush request while the    *)
(* LogMessage is still in messageChan.                                     *)
(***************************************************************************)
C3_LogThenSyncFlush ==
    [][\A c \in Callers :
          (SyncFlushDone(c) /\ C3_Case(c)) =>
              LastSent(c).id \in Ids(files["d1"].latest)]_vars

(***************************************************************************)
(* C3 amended: when the acknowledged SyncFlush returns, and run had taken  *)
(* the LogMessage out of messageChan before it took the SyncFlush request, *)
(* and no flush has failed, the line is in the files of the directory: in  *)
(* latest.log if no later LogMessage has been handled, else in latest.log  *)
(* or in a rotated file.                                                   *)
(***************************************************************************)
C3_SyncFlushAfterDequeue ==
    [][\A c \in Callers :
          (SyncFlushDone(c) /\ C3_Case(c)
              /\ LastSent(c).id \notin Ids(messageChan)) =>
              /\ LastSent(c).id \in Ids(DirLines("d1"))
              /\ (\A m \in Handled : m.id <= LastSent(c).id)
                     => LastSent(c).id \in Ids(files["d1"].latest)]_vars

\* An acknowledged SyncFlush has returned and the line logged before it is
\* in a rotated file, behind lines another goroutine logged.
C3_Acknowledged ==
    \E c \in Callers :
        /\ C3_Case(c) /\ callers[c].pc = "idle" /\ callers[c].result = "done"
        /\ LastSent(c).id \in Ids(DirLines("d1"))
        /\ LastSent(c).id \notin Ids(files["d1"].latest)

(***************************************************************************)
(* C4: a LogMessage (FATAL aside) is emitted if and only if it passes the  *)
(* level that was configured when messageChan accepted it; in particular a *)
(* Debug call made under level INFO is never emitted, also when the same   *)
(* goroutine sets the level to DEBUG afterwards.  run's select may take    *)
(* the config update before the queued LogMessage.                         *)
(***************************************************************************)
C4_LevelUpdateOrdering ==
    \A m \in Sent :
        m.level # FATAL =>
            /\ Filtered(m.cfgLevel, m.level) => ~Emitted(m.id)
            /\ (m \in Handled /\ ~Filtered(m.cfgLevel, m.level)
                 /\ (FileOutput \/ config.ConsoleOut # NoSink)) => Emitted(m.id)

\* The Debug call made under level INFO has been emitted.
C4_EarlyDebugEmitted ==
    \E m \in Handled : m.level = DEBUG /\ m.cfgLevel = INFO /\ Emitted(m.id)

\* The scenario makes fewer Log calls than MaxBufferSizeBytes, all passing
\* the level, and no other call; file output is on.
RoundTripCase ==
    /\ Stable /\ scenario.cfg.DirectoryPath[1] = "d1"
    /\ \A o \in Ops : o.op = "Log" /\ ~Filtered(scenario.cfg.Level[1], o.level)
    /\ Len(scenario.progs["c1"]) + Len(scenario.progs["c2"])
           < scenario.cfg.MaxBufferSizeBytes[1]

\* Every Log call of the scenario has returned.
AllSubmitted == \A c \in Callers : prog[c] = <<>> /\ callers[c].pc = "idle"

(***************************************************************************)
(* C5 as stated: in a round-trip scenario the files change only in a timer *)
(* fire, and a timer fire processed after all N events were submitted      *)
(* leaves all N lines in latest.log, in submission order.  The select may  *)
(* take the tick while LogMessages are still in messageChan.               *)
(***************************************************************************)
C5_RoundTripAsStated ==
    [][RoundTripCase =>
          /\ files' # files => TimerFire
          /\ (TimerFire /\ AllSubmitted /\ NoFault') =>
                 IdSeq(files'["d1"].latest)
                     = [i \in 1..(Len(scenario.progs["c1"])
                                  + Len(scenario.progs["c2"])) |-> i]]_vars

(***************************************************************************)
(* C5 amended: in a round-trip scenario the files change only in a timer   *)
(* fire; a timer fire whose flush does not fail leaves the write buffer    *)
(* empty and the lines of exactly the LogMessages run had handled before   *)
(* it, in submission order, in the rotated files followed by latest.log:   *)
(* all in latest.log when no rotation has happened.                        *)
(***************************************************************************)
C5_RoundTrip ==
    [][RoundTripCase =>
          /\ files' # files => TimerFire
          /\ (TimerFire /\ NoFault') =>
                 /\ writeBuffer' = <<>>
                 /\ IdSeq(LinesOf(files'["d1"]))
                        = [i \in 1..Cardinality(Handled) |-> i]
                 /\ files'["d1"].rotated = <<>> =>
                        IdSeq(files'["d1"].latest)
                            = [i \in 1..Cardinality(Handled) |-> i]]_vars

\* A round-trip scenario in which two timer fires have flushed one line
\* each, the second after a rotation.
C5_TimerFlushed ==
    /\ RoundTripCase /\ NoFault /\ AllSubmitted
    /\ Len(files["d1"].rotated) = 1 /\ Len(files["d1"].latest) = 1
    /\ writeBuffer = <<>> /\ messageChan = <<>>

(***************************************************************************)
(* C6: a SyncFlush or Shutdown call made with timeout 0 returns only after *)
(* run has flushed and signalled done.  SyncFlush has no case for 0: its   *)
(* select holds time.After(0), so the call can return on the timer.        *)
(***************************************************************************)
C6_ZeroTimeoutWaits ==
    \A c \in Callers :
        (/\ callers[c].pc = "idle"
         /\ callers[c].op.op \in {"SyncFlush", "Shutdown"}
         /\ callers[c].op.timeout = 0) =>
            callers[c].result \in {"done", "nil"}

\* SyncFlush(0) has returned on its timer while run had flushed but had not
\* yet signalled done.
C6_ReturnedUnacknowledged ==
    \E c \in Callers :
        /\ callers[c].pc = "idle" /\ callers[c].op.op = "SyncFlush"
        /\ callers[c].op.timeout = 0 /\ callers[c].result = "timeout"
        /\ run.pc = "sendSyncDone" /\ run.done = c

(***************************************************************************)
(* C7: once the timeout T > 0 of a SyncFlush or Shutdown call has run out, *)
(* the call has returned.  Both calls first send on an unbuffered channel, *)
(* outside any select, and start their timer after that send.              *)
(***************************************************************************)
C7_BoundedWait ==
    \A c \in Callers :
        callers[c].elapsed => callers[c].pc \notin {"sendSync", "sendShutdown"}

\* The timeout of a call has run out while the caller is blocked in its
\* send and run has returned after a shutdown: nothing will receive.
C7_BlockedOnStopped ==
    \E c \in Callers :
        /\ callers[c].elapsed /\ callers[c].pc \in {"sendSync", "sendShutdown"}
        /\ run.pc = "returned" /\ ~Running

(***************************************************************************)
(* C8: run never blocks on a reply: whenever it is at done <- struct{}{},  *)
(* the goroutine that made the request is receiving from done.  After the  *)
(* caller's timeout nobody receives from the unbuffered channel.           *)
(***************************************************************************)
C8_TimeoutDoesNotWedge ==
    /\ run.pc = "sendSyncDone" => callers[run.done].pc = "waitSync"
    /\ run.pc = "sendShutdownDone" => callers[run.done].pc = "waitShutdown"

\* Shutdown has returned its error after a timeout; run is blocked at the
\* reply and Running is still set.
C8_Wedged ==
    \E c \in Callers :
        /\ callers[c].pc = "idle" /\ callers[c].result = "errTimeout"
        /\ run.pc = "sendShutdownDone" /\ run.done = c /\ Running

(***************************************************************************)
(* C9: Shutdown returns nil whenever it has received from done before its  *)
(* timeout.  With a timeout > 0 the caller reads Running after receiving,  *)
(* and run clears Running only after sending.                              *)
(***************************************************************************)
C9_ShutdownResult ==
    \A c \in Callers : callers[c].result # "errAfterDone"

\* Shutdown has returned the error although run has signalled done, and run
\* is about to clear Running.
C9_ErrorAfterDone ==
    \E c \in Callers :
        /\ callers[c].pc = "idle" /\ callers[c].op.op = "Shutdown"
        /\ callers[c].result = "errAfterDone" /\ run.pc = "setRunning"

(***************************************************************************)
(* C10: when Fatal was called with timeout 0, the process does not exit    *)
(* from the caller's side before run has emitted and flushed the fatal     *)
(* line.  time.Sleep(0) returns at once.                                   *)
(***************************************************************************)
C10_FatalZeroWaits ==
    \A c \in Callers :
        (exitBy = c /\ callers[c].op.timeout = 0) =>
            \/ scenario.cfg.DirectoryPath[1] = "d1" /\ InFiles(LastSent(c).id)
            \/ scenario.cfg.DirectoryPath[1] = "" /\ InConsole(LastSent(c).id)

\* Fatal(2, 0) has exited the process from the caller's side while the
\* FATAL LogMessage, which passes level FATAL, is still in messageChan.
C10_ExitedUnflushed ==
    \E c \in Callers :
        /\ exitBy = c /\ exit = 2 /\ callers[c].op.timeout = 0
        /\ config.Level = FATAL
        /\ LastSent(c).id \in Ids(messageChan) /\ ~Emitted(LastSent(c).id)

(***************************************************************************)
(* Fatal against a stopped run                                             *)
(***************************************************************************)
\* A goroutine shuts the logger down, logs until messageChan is full and
\* then calls Fatal with a timeout > 0; nobody calls Start.
StallScenarios ==
    {Scenario(Cfg(lvl, 2, 2, 1, "d1", Nil),
              <<ShutdownOp(0), LogOp(INFO), LogOp(INFO), FatalOp(3, 1)>>, p2) :
        lvl \in {INFO, FATAL}, p2 \in {<<>>, <<LogOp(WARN)>>, <<FlushOp>>}}

InitStall == InitWith(StallScenarios \cup CoverScenarios)

SpecStall == InitStall /\ [][Next]_vars

\* run will take nothing more out of messageChan: it has returned, or it
\* is blocked at a reply nobody receives.
Stalled ==
    \/ run.pc = "returned"
    \/ run.pc = "sendSyncDone" /\ callers[run.done].pc # "waitSync"
    \/ run.pc = "sendShutdownDone" /\ callers[run.done].pc # "waitShutdown"

(***************************************************************************)
(* C11: a Fatal call with timeout T > 0 that is in progress is never       *)
(* blocked for good: it is not waiting to send to a full messageChan that  *)
(* run will not drain.  Fatal starts its sleep only after qM's send.       *)
(***************************************************************************)
C11_FatalTerminates ==
    \A c \in Callers :
        (/\ Alive /\ callers[c].op.op = "Fatal" /\ callers[c].op.timeout > 0
         /\ callers[c].pc = "qM" /\ Len(messageChan) = MsgChanSize) =>
            ~Stalled

\* Fatal(3, 1) is blocked in qM on a full messageChan, run has returned
\* after Shutdown, and no goroutine has a call left to make: no step of the
\* program is possible and the process has not exited.
C11_FatalHangs ==
    \E c \in Callers :
        /\ Alive /\ callers[c].op.op = "Fatal" /\ callers[c].op.timeout > 0
        /\ callers[c].pc = "qM" /\ Len(messageChan) = MsgChanSize
        /\ run.pc = "returned" /\ ~Running
        /\ \A d \in Callers : prog[d] = <<>> /\ (d # c => callers[d].pc = "idle")
        /\ ~ENABLED Next

(***************************************************************************)
(* C12: the step in which run takes a FATAL LogMessage out of messageChan  *)
(* emits its line, leaves the line flushed (not in the write buffer) and   *)
(* exits the process, from run, with the exit code of that LogMessage.     *)
(* handleMessage applies the level test first, so under a level below      *)
(* FATAL the message is dropped and run goes on.                           *)
(***************************************************************************)
C12_FatalHandling ==
    [][IF messageChan # <<>> /\ messageChan' = Tail(messageChan)
          /\ Head(messageChan).level = FATAL
          /\ (config.DirectoryPath # "" \/ config.ConsoleOut # NoSink)
       THEN LET m == Head(messageChan)
            IN  /\ EmittedIn(L', m.id)
                /\ m.id \notin Ids(writeBuffer')
                /\ exit' = m.exitCode /\ exitBy' = "run"
       ELSE TRUE]_vars

\* run has handled a FATAL LogMessage, is back at its select with an empty
\* messageChan, and the process has not exited.
C12_FatalSurvived ==
    /\ \E m \in Handled : m.level = FATAL
    /\ messageChan = <<>> /\ run.pc = "select" /\ exit = NoExit

(***************************************************************************)
(* C13: messageChan never holds more than MsgChanSize LogMessages; a       *)
(* goroutine in qM stays there while the channel is full; the channel      *)
(* holds, in order, exactly the LogMessages accepted and not yet handled   *)
(* (ids are given in acceptance order, so the handled ones are the oldest  *)
(* ones, each taken once); and the channel changes only by a send at its   *)
(* tail or by run taking its head and giving it to handleMessage.          *)
(***************************************************************************)
C13_Backpressure ==
    /\ [](/\ Len(messageChan) <= MsgChanSize
          /\ IdSeq(messageChan)
                 = [i \in 1..Len(messageChan) |->
                        nextId - Len(messageChan) + i - 1]
          /\ {m.id : m \in Sent} = 1..(nextId - 1))
    /\ [][/\ \A c \in Callers :
                 (callers[c].pc = "qM" /\ Len(messageChan) >= MsgChanSize)
                     => callers'[c].pc = "qM"
          /\ messageChan' # messageChan =>
                 \/ /\ Len(messageChan) < MsgChanSize
                    /\ \E c \in Callers :
                           /\ callers[c].pc = "qM"
                           /\ messageChan' = Append(messageChan,
                                  [id |-> nextId, level |-> callers[c].op.level,
                                   exitCode |-> callers[c].op.code])
                 \/ /\ messageChan # <<>> /\ messageChan' = Tail(messageChan)
                    /\ run.pc = "select"
                    /\ \E env \in Envs(L) :
                           L' = handleMessage(L, Head(messageChan), env)]_vars

\* messageChan is full, both goroutines are blocked in qM, and run has
\* handled a LogMessage before.
C13_FullQueue ==
    /\ Len(messageChan) = MsgChanSize /\ Handled # {}
    /\ \A c \in Callers : callers[c].pc = "qM"

(***************************************************************************)
(* C14: a step in which a flush fails (handleFlushError prints its         *)
(* diagnostic) leaves DirectoryPath empty, a console sink present (the     *)
(* configured one, or the default one when none was configured), the       *)
(* diagnostic on that sink directly followed by the whole content the      *)
(* buffer had when the flush began, and the write buffer empty.            *)
(***************************************************************************)
C14_FailureFallback ==
    [][(\E i \in (Len(console) + 1)..Len(console') : console'[i].kind = "diag")
        => \E i \in (Len(console) + 1)..(Len(console') - 1) :
              /\ console'[i].kind = "diag" /\ console'[i + 1].kind = "dump"
              /\ console'[i + 1].lines \in
                     {writeBuffer} \cup
                     (IF messageChan # <<>> /\ messageChan' = Tail(messageChan)
                      THEN {Append(writeBuffer, FormatLine(Head(messageChan)))}
                      ELSE {})
              /\ console'[i + 1].lines # <<>>
              /\ config'.ConsoleOut =
                     (IF config.ConsoleOut = NoSink THEN StdoutSink
                      ELSE config.ConsoleOut)
              /\ console'[i].sink = config'.ConsoleOut
              /\ console'[i + 1].sink = config'.ConsoleOut
              /\ config'.DirectoryPath = ""
              /\ writeBuffer' = <<>>]_vars

\* A flush has failed after latest.log was renamed; two buffered lines
\* were printed to the default console sink.
C14_DumpedAfterRename ==
    /\ \E i \in 1..Len(console) :
           /\ console[i].kind = "dump" /\ Len(console[i].lines) >= 2
           /\ console[i].sink = StdoutSink
    /\ files["d1"].rotated # <<>>
    /\ ~files["d1"].exists
    /\ config.DirectoryPath = "" /\ writeBuffer = <<>>

(***************************************************************************)
(* C15: when run serves an UpdateConfig whose DirectoryPath is not an      *)
(* existing directory while the write buffer is not empty, DirectoryPath   *)
(* becomes empty, a console sink is present, the buffer content is printed *)
(* to that sink and the buffer is empty.  The code only calls              *)
(* fallbackToConsole: the buffer is neither printed nor cleared.           *)
(***************************************************************************)
C15_InvalidPathUpdate ==
    [][\A c \in Callers :
          (/\ AtSelect /\ callers[c].pc = "sendSet" /\ callers'[c].pc = "idle"
           /\ callers[c].op.cfg.DirectoryPath # Nil
           /\ setPathFails(callers[c].op.cfg.DirectoryPath[1])
           /\ writeBuffer # <<>>)
          => /\ config'.DirectoryPath = ""
             /\ config'.ConsoleOut # NoSink
             /\ Len(console') > Len(console)
             /\ console'[Len(console')].lines = writeBuffer
             /\ console'[Len(console')].sink = config'.ConsoleOut
             /\ writeBuffer' = <<>>]_vars

\* After SetDirectoryPath("bad") every call has returned and run waits in
\* its select: file output is off, two lines are still in the write buffer,
\* and they are neither in a file nor on the console.
C15_BufferStranded ==
    /\ \E c \in Callers :
           /\ callers[c].op.cfg.DirectoryPath = <<"bad">>
           /\ callers[c].result = "sent"
    /\ \A c \in Callers : callers[c].pc = "idle" /\ prog[c] = <<>>
    /\ messageChan = <<>> /\ run.pc = "select"
    /\ config.DirectoryPath = "" /\ config.ConsoleOut = StdoutSink
    /\ Len(writeBuffer) >= 2
    /\ \A i \in 1..Len(writeBuffer) :
           /\ ~InFiles(writeBuffer[i].id)
           /\ ~InConsole(writeBuffer[i].id)
    /\ \A env \in Envs(L) : flush(L, env) = L

(***************************************************************************)
(* C16: when NewLogger is given a directory path that does not exist or is *)
(* not a directory, it returns an error, DirectoryPath is empty and a      *)
(* console sink is installed, and the line of a log call made on the       *)
(* Logger it returned is printed to the console sink once run has handled  *)
(* it.  The code returns a nil Logger with the error and starts no run, so *)
(* the log call dereferences nil.                                          *)
(***************************************************************************)
C16_InvalidPathAtConstruction ==
    setPathFails(scenario.cfg.DirectoryPath[1]) =>
        /\ config.DirectoryPath = ""
        /\ config.ConsoleOut # NoSink
        /\ \A c \in Callers :
               callers[c].op.op = "Log" =>
                   \/ callers[c].pc = "qM"
                   \/ /\ callers[c].pc = "idle" /\ callers[c].sent # <<>>
                      /\ LET m == LastSent(c)
                         IN  m.id \in Ids(messageChan) \/ InConsole(m.id)

\* NewLogger was given "bad" and returned (nil, err); the Config it was
\* given has an empty DirectoryPath and the default console sink; the Info
\* call has panicked and nothing was printed.
C16_LogOnNilLogger ==
    /\ scenario.cfg.DirectoryPath = <<"bad">>
    /\ run.pc = "nil"
    /\ config.DirectoryPath = "" /\ config.ConsoleOut = StdoutSink
    /\ \E c \in Callers :
           /\ callers[c].pc = "panicked" /\ callers[c].op.op = "Log"
           /\ callers[c].sent = <<>>
    /\ console = <<>> /\ messageChan = <<>>

(***************************************************************************)
(* C17 as stated: a flush that fails leaves the write buffer as it was; a  *)
(* flush that succeeds has appended the whole buffer to the files and      *)
(* cleared it.  Stated for a flush of the present buffer under every       *)
(* outcome of the system calls.                                            *)
(***************************************************************************)
FlushFailed(e, r) == Len(r.console) > Len(e.console)

C17_AtomicityAsStated ==
    \A env \in Envs(L) :
        LET r == flush(L, env)
        IN  IF FlushFailed(L, r)
            THEN r.writeBuffer = writeBuffer /\ r.files = files
            ELSE r = L \/ (/\ r.writeBuffer = <<>>
                           /\ LinesOf(r.files["d1"])
                                  = DirLines("d1") \o writeBuffer)

(***************************************************************************)
(* C17: a flush with an empty buffer or an empty DirectoryPath changes     *)
(* nothing; a flush that succeeds appends the whole buffer to the files    *)
(* and clears it; a flush that fails prints the whole buffer to the        *)
(* console sink after the diagnostic, clears it, and has added to the      *)
(* files nothing or (after a short write) the first part of the buffer.    *)
(* In no case does a part of the buffer stay in the buffer.                *)
(***************************************************************************)
FlushAllOrDump(e) ==
    \A env \in Envs(e) :
        LET r == flush(e, env)
            d == e.config.DirectoryPath
        IN  IF e.writeBuffer = <<>> \/ d = "" THEN r = e
            ELSE /\ r.writeBuffer = <<>>
                 /\ IF FlushFailed(e, r)
                    THEN /\ r.console = e.console \o
                               <<[sink |-> r.config.ConsoleOut, kind |-> "diag",
                                  lines |-> <<>>],
                                 [sink |-> r.config.ConsoleOut, kind |-> "dump",
                                  lines |-> e.writeBuffer]>>
                         /\ \E p \in {<<>>, ShortWrite(e.writeBuffer)} :
                                LinesOf(r.files[d]) = LinesOf(e.files[d]) \o p
                         /\ r.config.DirectoryPath = ""
                    ELSE /\ LinesOf(r.files[d])
                                = LinesOf(e.files[d]) \o e.writeBuffer
                         /\ r.config = e.config

C17_Atomicity ==
    /\ FlushAllOrDump(L)
    /\ (messageChan # <<>> /\ config.DirectoryPath # "") =>
           FlushAllOrDump([L EXCEPT !.writeBuffer =
                                        Append(@, FormatLine(Head(messageChan)))])

\* A flush of two buffered lines has failed in the write after the rename:
\* the lines are on the console, the buffer is empty, and the first of them
\* is also in latest.log.
C17_ClearedOnFailure ==
    /\ NumFaults = 1 /\ writeBuffer = <<>> /\ config.DirectoryPath = ""
    /\ files["d1"].rotated # <<>>
    /\ Len(files["d1"].latest) = 1
    /\ \E i \in 1..Len(console) :
           /\ console[i].kind = "dump" /\ Len(console[i].lines) = 2
           /\ files["d1"].latest = ShortWrite(console[i].lines)

FileCount(d) == Len(files[d].rotated) + (IF files[d].exists THEN 1 ELSE 0)

\* The number of Info calls of a rotation scenario.
LogCalls == Len(scenario.progs["c1"]) - 1

C19_FileCountAsStated ==
    /\ []((scenario \in RotateScenarios /\ NoFault /\ run.pc = "returned")
              => FileCount("d1") = LogCalls)
    /\ [][files["d1"].rotated' # files["d1"].rotated =>
              /\ Len(files["d1"].rotated') = Len(files["d1"].rotated) + 1
              /\ SubSeq(files["d1"].rotated', 1, Len(files["d1"].rotated))
                     = files["d1"].rotated]_vars

(***************************************************************************)
(* C19: in a rotation scenario without a failed flush and without a        *)
(* repeated random suffix, the directory holds as many files as run has    *)
(* handled lines (one latest.log and one rotated file per rotation), hence *)
(* as many as Info was called once run has handled them all; Shutdown      *)
(* leaves the lines still in messageChan unhandled.  A step that changes   *)
(* the rotated files moves the content of latest.log to a name that no     *)
(* rotated file has and keeps every earlier file, except that a repeated   *)
(* random suffix replaces the file of that suffix; the file named by the   *)
(* timestamp alone is never replaced.                                      *)
(***************************************************************************)
C19_FileCount ==
    /\ []((scenario \in RotateScenarios /\ NoFault /\ ~scenario.collide)
              => FileCount("d1") = Cardinality(Handled))
    /\ [][files["d1"].rotated' # files["d1"].rotated =>
              LET old == files["d1"].rotated
                  new == files["d1"].rotated'[Len(files["d1"].rotated')]
              IN  /\ new.content = files["d1"].latest
                  /\ IF ~NameExists(old, new.name)
                     THEN files["d1"].rotated' = Append(old, new)
                     ELSE /\ scenario.collide
                          /\ new.name.sfx # NoSuffix
                          /\ NameExists(old, RotName(new.name.ts, NoSuffix))
                          /\ files["d1"].rotated' =
                                 Append(SelectSeq(old,
                                            LAMBDA f : f.name # new.name), new)]_vars

\* Four Info calls were handled within one second and Shutdown has stopped
\* run: three rotated files, named by the same timestamp with no suffix and
\* with two different suffixes, and latest.log.
C19_FourFiles ==
    /\ scenario \in RotateScenarios /\ ~scenario.collide /\ NoFault
    /\ LogCalls = 4 /\ Cardinality(Handled) = 4 /\ run.pc = "returned"
    /\ FileCount("d1") = 4
    /\ \A i \in 1..3 : files["d1"].rotated[i].name.ts = 0
    /\ {files["d1"].rotated[i].name.sfx : i \in 1..3}
           = {NoSuffix} \cup {Random(SuffixBytes, r) : r \in 1..2}

(***************************************************************************)
(* C20: every rotated file is named by its timestamp alone or by its       *)
(* timestamp and a suffix of exactly 8 URL-safe characters.  The suffix    *)
(* the code appends is the base64 encoding of 8 random bytes: 12           *)
(* characters, the last of them the padding character.                     *)
(***************************************************************************)
URLSafe == {Alphabet[i] : i \in 1..Len(Alphabet)}

C20_SuffixLength ==
    \A d \in ValidDirs : \A i \in 1..Len(files[d].rotated) :
        LET sfx == files[d].rotated[i].name.sfx
        IN  sfx = NoSuffix
            \/ (Len(sfx) = 8 /\ \A k \in 1..Len(sfx) : sfx[k] \in URLSafe)

\* A second rotation within one second has named its file with a suffix of
\* 12 characters, 11 from the URL-safe alphabet and the padding character.
C20_TwelveCharacters ==
    /\ Len(files["d1"].rotated) = 2
    /\ files["d1"].rotated[1].name = RotName(0, NoSuffix)
    /\ LET n == files["d1"].rotated[2].name
       IN  /\ n.ts = 0 /\ Len(n.sfx) = 12
           /\ \A k \in 1..11 : n.sfx[k] \in URLSafe
           /\ n.sfx[12] = Padding

(***************************************************************************)
(* C21: a flush on an empty write buffer touches no file and leaves        *)
(* buffer, console and config as they are; and of two SyncFlush calls made *)
(* in a row by one goroutine both return.  In the code the first call can  *)
(* return on its timer before run has sent on done; run then waits at that *)
(* send for ever and the second call never gets past its own send.         *)
(***************************************************************************)
C21_FlushIdempotence ==
    /\ [](writeBuffer = <<>> => \A env \in Envs(L) : flush(L, env) = L)
    /\ [][(/\ writeBuffer = <<>> /\ messageChan' = messageChan
           /\ exitBy' = exitBy
           /\ \A c \in Callers :
                  ~(callers[c].pc = "sendSet" /\ callers'[c].pc = "idle"))
          => (files' = files /\ writeBuffer' = <<>> /\ config' = config
              /\ console' = console)]_vars
    /\ [](\A c \in Callers :
             ~(/\ scenario \in IdleScenarios
               /\ callers[c].op.op = "SyncFlush" /\ callers[c].pc = "sendSync"
               /\ prog[c] = <<>>
               /\ run.pc = "sendSyncDone" /\ run.done = c))

\* The second SyncFlush of a goroutine is in its send while run still waits
\* to signal the first one; the buffer has been empty throughout, no file
\* exists, and no step is possible.
C21_SecondCallBlocked ==
    /\ scenario \in IdleScenarios
    /\ scenario.progs["c1"][1].op = "SyncFlush" /\ scenario.progs["c2"] = <<>>
    /\ callers["c1"].pc = "sendSync" /\ prog["c1"] = <<>>
    /\ run.pc = "sendSyncDone" /\ run.done = "c1"
    /\ writeBuffer = <<>> /\ \A d \in ValidDirs : ~files[d].exists
    /\ ~ENABLED Next

(***************************************************************************)
(* C22: when run serves an UpdateConfig, every field of the Config that is *)
(* nil in the request keeps its value.  In the code a DirectoryPath that   *)
(* is empty or invalid goes through fallbackToConsole, which installs the  *)
(* default console sink when none is set, although ConsoleOut is nil in    *)
(* the request.                                                            *)
(***************************************************************************)
ConfigFields ==
    {"Level", "MaxBufferSizeBytes", "MaxFileSizeBytes", "FlushInterval",
     "DirectoryPath", "ConsoleOut"}

C22_PartialUpdateFrame ==
    [][\A c \in Callers :
          (AtSelect /\ callers[c].pc = "sendSet" /\ callers'[c].pc = "idle")
          => \A f \in ConfigFields :
                 callers[c].op.cfg[f] = Nil => config'[f] = config[f]]_vars

\* SetDirectoryPath("") was served on a Logger built without a console
\* sink: the default sink is installed, and the line logged afterwards is
\* printed to it.
C22_ConsoleTurnedOn ==
    /\ scenario.cfg.ConsoleOut = Nil
    /\ \E c \in Callers :
           /\ SetDirectoryPath("") \in Ops
           /\ callers[c].pc = "idle" /\ prog[c] = <<>>
           /\ Len(callers[c].sent) = 2
    /\ config.ConsoleOut = StdoutSink /\ config.DirectoryPath = ""
    /\ \E i \in 1..Len(console) :
           console[i].sink = StdoutSink /\ console[i].kind = "line"

(***************************************************************************)
(* C23: what a goroutine reads through the Config that GetConfigCopy       *)
(* returned stays what it read when it got the copy, as long as it has not *)
(* assigned through the copy itself; and an assignment through the copy    *)
(* leaves the Config of the Logger unchanged.  In the code the copy is a   *)
(* struct of pointers that are the pointers of the Logger's Config.        *)
(***************************************************************************)
C23_ConfigCopySnapshot ==
    /\ [](\A c \in Callers :
             (callers[c].copy # Nil /\ \A o \in Ops : o.op # "WriteCopy")
             => \A f \in ConfigCells :
                    Deref(callers[c].copy[1].ptr[f]) = callers[c].copy[1].seen[f])
    /\ [][\A c \in Callers :
             (Alive /\ prog[c] # <<>> /\ Head(prog[c]).op = "WriteCopy"
              /\ prog'[c] = Tail(prog[c]))
             => config' = config]_vars

\* A goroutine got its copy at level INFO; SetLevel(DEBUG) of the other
\* goroutine was served afterwards, and the copy now reads DEBUG.
C23_CopyFollowsUpdate ==
    \E c \in Callers :
        /\ callers[c].copy # Nil
        /\ callers[c].copy[1].seen["Level"] = INFO
        /\ Deref(callers[c].copy[1].ptr["Level"]) = DEBUG
        /\ SetLevel(DEBUG) \in Ops
        /\ \A o \in Ops : o.op # "WriteCopy"

\* A goroutine assigned NONE through its copy, and the Info it logged
\* afterwards was dropped by handleMessage.
C23_WriteReachesLogger ==
    \E c \in Callers :
        /\ callers[c].op.op = "Log" /\ prog[c] = <<>>
        /\ WriteCopyOp(NONE) \in Ops
        /\ config.Level = NONE
        /\ callers[c].sent # <<>> /\ LastSent(c) \in Handled
        /\ ~Emitted(LastSent(c).id)

(***************************************************************************)
(* C24: a run that is started with FlushInterval 0, by NewLogger or by     *)
(* Start, reaches its select and serves calls, and no flush of it is       *)
(* started by the ticker.  In the code run begins with time.NewTicker on   *)
(* the FlushInterval, which panics for an interval that is not positive.   *)
(***************************************************************************)
C24_ZeroIntervalRuns ==
    /\ [](run.pc # "panicked")
    /\ [][(config.FlushInterval = 0 /\ run.ticker = "off")
          => \/ run'.ticker = "off"
             \/ \E c \in Callers :
                    callers[c].pc = "sendSet" /\ callers'[c].pc = "idle"
             \/ run.pc = "returned"]_vars

\* SetFlushInterval(0), Shutdown and Start were called in this order on a
\* Logger built with interval 1: the run that Start launched has panicked
\* in NewTicker, and the Warn that follows is never made.
C24_PanicOnRestart ==
    /\ scenario.cfg.FlushInterval = <<1>>
    /\ config.FlushInterval = 0
    /\ Running /\ run.pc = "panicked"
    /\ callers["c1"].op.op = "Start"
    /\ prog["c1"] # <<>> /\ ~ENABLED Next

(***************************************************************************)
(* C25: Running is set when NewLogger returns.  It is cleared only by run, *)
(* in its shutdownChan case, after the flush of that case (a further flush *)
(* would change nothing) and after the goroutine that called Shutdown has  *)
(* received on done; run returns in the same step.  No other step clears   *)
(* it.                                                                     *)
(***************************************************************************)
C25_LifecycleOrdering ==
    /\ [](Running <=> run.pc # "returned")
    /\ [](run.pc \in {"sendShutdownDone", "setRunning"} =>
              Running /\ \A env \in Envs(L) : flush(L, env) = L)
    /\ [][(run'.pc = "sendShutdownDone" /\ run.pc # "sendShutdownDone") =>
              /\ run.pc = "select" /\ L' \in Flushed
              /\ callers[run'.done].pc = "sendShutdown"
              /\ callers'[run'.done].pc = "waitShutdown"]_vars
    /\ [][(run'.pc = "setRunning" /\ run.pc # "setRunning") =>
              /\ run.pc = "sendShutdownDone"
              /\ callers[run.done].pc = "waitShutdown"
              /\ callers'[run.done].pc \in {"idle", "lockRunning"}
              /\ callers'[run.done].result \in {"nil", "done"}]_vars
    /\ [][(Running /\ ~Running') =>
              run.pc = "setRunning" /\ run'.pc = "returned"]_vars

\* Shutdown has returned nil, run has returned with Running cleared, and
\* the line logged before is in latest.log.
C25_StoppedAfterShutdown ==
    /\ ~Running /\ run.pc = "returned"
    /\ \E c \in Callers :
           /\ callers[c].op.op = "Shutdown" /\ callers[c].pc = "idle"
           /\ callers[c].result = "nil"
    /\ files["d1"].latest # <<>> /\ writeBuffer = <<>>

(***************************************************************************)
(* C26: whenever Running is cleared the write buffer is empty, and the     *)
(* Config does not change until Start has set Running again: the restarted *)
(* run finds an empty buffer and the Config that Shutdown left.            *)
(***************************************************************************)
C26_RestartEmptyBuffer ==
    /\ [](~Running => writeBuffer = <<>>)
    /\ [][~Running => config' = config]_vars

\* Start has relaunched run after SetDirectoryPath and Shutdown: the line
\* logged before the update is still in the buffer, and file output is off.
C26_RestartedWithOldLines ==
    /\ Running /\ run.pc = "select"
    /\ callers["c1"].op.op = "Start" /\ callers["c1"].pc = "idle"
    /\ writeBuffer # <<>> /\ config.DirectoryPath = ""
    /\ files["d1"].latest = <<>>

(***************************************************************************)
(* C27: after lvl.FromString(levelStr), if levelStr is the name of a level *)
(* in any letter case, lvl is that level and the error is nil, whatever    *)
(* lvl was before; otherwise the error is not nil and lvl is what it was.  *)
(***************************************************************************)
C27_SeverityParsing ==
    \A c \in Callers :
        (callers[c].op.op = "FromString" /\ callers[c].pc = "idle") =>
            LET levelStr == callers[c].op.levelStr
                named == {l \in Levels : levelStr \in CaseVariants(String(l))}
            IN  IF named # {}
                THEN callers[c].result = NoErr /\ callers[c].lvl \in named
                ELSE /\ callers[c].result = ErrInvalid
                     /\ callers[c].lvl = callers[c].op.level

\* FromString("debug") on a variable holding INFO has returned nil, and
\* the variable still holds INFO.
C27_ReceiverNotSet ==
    /\ callers["c1"].op.op = "FromString" /\ callers["c1"].pc = "idle"
    /\ callers["c1"].op.levelStr = <<"d", "e", "b", "u", "g">>
    /\ callers["c1"].op.level = INFO
    /\ callers["c1"].result = NoErr /\ callers["c1"].lvl = INFO

(***************************************************************************)
(* C28: run is launched only by Start, under the mutex, when Running is    *)
(* cleared, that is when the run before it has returned; the launch sets   *)
(* Running, so a second Start finds it set.  Start with Running set        *)
(* changes nothing of the Logger.  Hence no two run loops are ever active  *)
(* on one Logger.                                                          *)
(***************************************************************************)
StartStep(c) ==
    /\ callers[c].pc = "idle" /\ prog[c] # <<>>
    /\ Head(prog[c]).op = "Start" /\ prog'[c] = Tail(prog[c])

C28_SingleCoordinator ==
    /\ [](~Running <=> run.pc = "returned")
    /\ [][\A c \in Callers : StartStep(c) =>
              IF Running
              THEN UNCHANGED <<Running, run, messageChan, config,
                               writeBuffer, files, console>>
              ELSE /\ Running' /\ run' = StartRun(config)
                   /\ UNCHANGED <<messageChan, config, writeBuffer,
                                  files, console>>]_vars
    /\ [][(~Running /\ Running') => \E c \in Callers : StartStep(c)]_vars
    /\ [][(run.pc = "returned" /\ run'.pc # "returned") =>
              \E c \in Callers : StartStep(c)]_vars

\* One goroutine has logged, called Shutdown and called Start twice, the
\* other has called Start once; the line is in latest.log and one run loop
\* is at its select.
C28_StartedOnce ==
    /\ \A c \in Callers :
           /\ callers[c].op.op = "Start" /\ callers[c].pc = "idle"
           /\ prog[c] = <<>>
    /\ scenario.progs["c1"][2].op = "Shutdown"
    /\ Len(scenario.progs["c2"]) = 1
    /\ files["d1"].latest # <<>>
    /\ Running /\ run.pc = "select"

(***************************************************************************)
(* C29: when run has taken a Config update that carries a flush interval   *)
(* d, the ticker it had is stopped: with d > 0 a new ticker is running,    *)
(* and whenever the interval is positive run's select has a running        *)
(* ticker; with d = 0 no ticker is running, and while the interval is 0 no *)
(* step of run flushes on a tick.                                          *)
(***************************************************************************)
C29_TimerRestart ==
    /\ []((config.FlushInterval > 0 /\ run.pc = "select") => run.ticker = "on")
    /\ [][\A c \in Callers :
              (/\ callers[c].pc = "sendSet" /\ callers'[c].pc = "idle"
               /\ callers[c].op.cfg.FlushInterval # Nil) =>
                  /\ config'.FlushInterval = callers[c].op.cfg.FlushInterval[1]
                  /\ (run'.ticker = "on") <=> (config'.FlushInterval > 0)]_vars
    /\ [][(/\ config.FlushInterval = 0 /\ run.pc = "select" /\ run'.pc = "select"
           /\ callers' = callers /\ messageChan' = messageChan) =>
              writeBuffer' = writeBuffer /\ files' = files]_vars

\* The goroutine has logged, set the interval to 0 and logged again, and
\* has called neither Flush nor Shutdown; the buffer takes three lines.
\* Both lines are in latest.log: a tick flushed them after the update.
C29_StaleTickFlushed ==
    /\ scenario.cfg.FlushInterval = <<1>>
    /\ \A i \in 1..Len(scenario.progs["c1"]) :
           scenario.progs["c1"][i].op \in {"Log", "UpdateConfig"}
    /\ scenario.progs["c2"] = <<>>
    /\ config.FlushInterval = 0 /\ config.MaxBufferSizeBytes = 3
    /\ Len(files["d1"].latest) = 2 /\ writeBuffer = <<>>
    /\ run.ticker = "off"

C31_DisabledWriterNoOp ==
    /\ [](config.DirectoryPath = "" =>
             \A io \in IOOutcomes : flush(L, [NoIO EXCEPT !.io = io]) = L)
    /\ [][(/\ config.DirectoryPath = ""
           /\ \A c \in Callers : ~(callers[c].pc = "sendSet" /\ callers'[c].pc = "idle")
           /\ \A c \in Callers : ~(/\ callers'[c] # callers[c]
                                    /\ callers'[c].result = "written")) =>
              /\ writeBuffer' = writeBuffer /\ files' = files /\ config' = config
              /\ \A i \in 1..Len(console') :
                     console'[i].kind = "diag" => i <= Len(console)]_vars

\* File output was turned off while a line was buffered; a second line was
\* logged and printed, SyncFlush was acknowledged, and the buffer still
\* holds the first line only; no file was created.
C31_FlushedWhileDisabled ==
    /\ scenario.cfg.DirectoryPath = <<"d1">>
    /\ config.DirectoryPath = "" /\ Len(writeBuffer) = 1
    /\ callers["c1"].op.op = "SyncFlush" /\ callers["c1"].pc = "idle"
    /\ callers["c1"].result = "done"
    /\ \E i \in 1..Len(console) :
           console[i].kind = "line" /\ console[i].lines[1].level = WARN
    /\ ~files["d1"].exists

(***************************************************************************)
(* C32: a flush of the present non-empty buffer, under every outcome of    *)
(* the clock, the suffix and the system calls, adds lines of the buffer to *)
(* latest.log only: every rotated file it leaves is one that was there, or *)
(* holds exactly what latest.log held before the flush.  When latest.log   *)
(* was at MaxFileSizeBytes (a rotation is due) and the flush fails, the    *)
(* diagnostic and the whole buffer are printed on the console sink, file   *)
(* output is off and the buffer is empty.                                  *)
(***************************************************************************)
RotationAtomic(e) ==
    \A env \in Envs(e) :
        LET r == flush(e, env)
            d == e.config.DirectoryPath
            old == e.files[d]
            new == r.files[d]
        IN  (e.writeBuffer # <<>> /\ d # "") =>
               /\ \A i \in 1..Len(new.rotated) :
                      \/ \E j \in 1..Len(old.rotated) : old.rotated[j] = new.rotated[i]
                      \/ /\ new.rotated[i].content = old.latest
                         /\ \A k \in 1..Len(e.writeBuffer) :
                                \A n \in 1..Len(new.rotated[i].content) :
                                    new.rotated[i].content[n] # e.writeBuffer[k]
               /\ \E p \in {<<>>, ShortWrite(e.writeBuffer), e.writeBuffer} :
                      new.latest \in {old.latest \o p, p}
               /\ new.rotated # old.rotated =>
                      /\ Len(old.latest) >= e.config.MaxFileSizeBytes
                      /\ new.latest \in {<<>>, ShortWrite(e.writeBuffer), e.writeBuffer}
               /\ (Len(old.latest) >= e.config.MaxFileSizeBytes /\ FlushFailed(e, r)) =>
                      /\ r.writeBuffer = <<>> /\ r.config.DirectoryPath = ""
                      /\ r.config.ConsoleOut # NoSink
                      /\ r.console = e.console \o
                            <<[sink |-> r.config.ConsoleOut, kind |-> "diag",
                               lines |-> <<>>],
                              [sink |-> r.config.ConsoleOut, kind |-> "dump",
                               lines |-> e.writeBuffer]>>

C32_RotationAtomicity ==
    /\ RotationAtomic(L)
    /\ (messageChan # <<>> /\ config.DirectoryPath # "") =>
           RotationAtomic([L EXCEPT !.writeBuffer =
                                        Append(@, FormatLine(Head(messageChan)))])

\* A flush has renamed latest.log and then failed before writing to the new
\* latest.log, which exists and is empty; the buffered lines are on the
\* console and the rotated file holds none of them.
C32_FailedAfterRename ==
    /\ NumFaults = 1 /\ writeBuffer = <<>> /\ config.DirectoryPath = ""
    /\ files["d1"].rotated # <<>>
    /\ files["d1"].exists /\ files["d1"].latest = <<>>
    /\ \E i \in 1..Len(console) :
           /\ console[i].kind = "dump" /\ console[i].lines # <<>>
           /\ \A j \in 1..Len(files["d1"].rotated) :
                  \A n \in 1..Len(files["d1"].rotated[j].content) :
                      \A k \in 1..Len(console[i].lines) :
                          files["d1"].rotated[j].content[n] # console[i].lines[k]

(***************************************************************************)
(* C33: with MaxFileSizeBytes <= 0 the latest.log that a rotation creates  *)
(* is at the limit at once.  A flush of the present non-empty buffer then  *)
(* fails: it adds at most one rotated file, prints one diagnostic followed *)
(* by the buffer on the console sink, empties the buffer and turns file    *)
(* output off.  While file output stays off, no step other than a Config   *)
(* update changes a file.                                                  *)
(***************************************************************************)
OverflowReported(e) ==
    \A env \in Envs(e) :
        LET r == flush(e, env)
            d == e.config.DirectoryPath
        IN  (e.writeBuffer # <<>> /\ d # "" /\ e.config.MaxFileSizeBytes <= 0) =>
               /\ Len(r.files[d].rotated) <= Len(e.files[d].rotated) + 1
               /\ r.files[d].latest \in {<<>>, e.files[d].latest}
               /\ r.console = e.console \o
                     <<[sink |-> r.config.ConsoleOut, kind |-> "diag",
                        lines |-> <<>>],
                       [sink |-> r.config.ConsoleOut, kind |-> "dump",
                        lines |-> e.writeBuffer]>>
               /\ r.writeBuffer = <<>> /\ r.config.DirectoryPath = ""
               /\ \A env2 \in {[NoIO EXCEPT !.io = io] : io \in IOOutcomes} :
                      flush(r, env2) = r

C33_PostRotationOverflow ==
    /\ [](OverflowReported(L))
    /\ []((messageChan # <<>> /\ config.DirectoryPath # "") =>
             OverflowReported([L EXCEPT !.writeBuffer =
                                 Append(@, FormatLine(Head(messageChan)))]))
    /\ [][(/\ config.DirectoryPath = ""
           /\ \A c \in Callers :
                  ~(callers[c].pc = "sendSet" /\ callers'[c].pc = "idle")) =>
              files' = files]_vars

\* NewLogger had MaxFileSizeBytes 0.  The first flush renamed the empty
\* latest.log and failed; lines logged later were flushed nowhere: one
\* rotated file, one diagnostic, and the goroutine has called Flush twice.
C33_RotatedOnce ==
    /\ scenario.cfg.MaxFileSizeBytes = <<0>>
    /\ Len(files["d1"].rotated) = 1 /\ files["d1"].rotated[1].content = <<>>
    /\ files["d1"].exists /\ files["d1"].latest = <<>>
    /\ NumFaults = 1 /\ config.DirectoryPath = ""
    /\ prog["c1"] = <<>> /\ callers["c1"].pc = "idle"
    /\ messageChan = <<>>

(***************************************************************************)
(* C34: while DirectoryPath is empty, every step leaves the files as they  *)
(* are and DirectoryPath empty, except the step in which run takes a       *)
(* Config update whose DirectoryPath is an existing directory: that step   *)
(* stores the cleaned path and touches no file.  With a DirectoryPath set, *)
(* a flush whose system calls succeed puts the whole buffer into the files *)
(* of that directory.                                                      *)
(***************************************************************************)
ValidPathUpdate(c) ==
    /\ callers[c].pc = "sendSet" /\ callers'[c].pc = "idle"
    /\ callers[c].op.cfg.DirectoryPath # Nil
    /\ IsExistingDir(Clean(callers[c].op.cfg.DirectoryPath[1]))

C34_StickyFallback ==
    /\ [][config.DirectoryPath = "" =>
              /\ files' = files
              /\ IF \E c \in Callers : ValidPathUpdate(c)
                 THEN \E c \in Callers :
                          /\ ValidPathUpdate(c)
                          /\ config'.DirectoryPath =
                                 Clean(callers[c].op.cfg.DirectoryPath[1])
                 ELSE config'.DirectoryPath = ""]_vars
    /\ []((config.DirectoryPath # "" /\ config.MaxFileSizeBytes > 0) =>
             \A env \in {x \in Envs(L) : x.io = "ok"} :
                 LET r == flush(L, env)
                     d == config.DirectoryPath
                 IN  /\ r.writeBuffer = <<>> /\ r.config = config
                     /\ LinesOf(r.files[d]) = DirLines(d) \o writeBuffer)

\* A flush failed and turned file output off; the line logged next was not
\* written; after the update with the existing directory the line logged
\* last is in latest.log.
C34_ResumedAfterUpdate ==
    /\ NumFaults = 1 /\ config.DirectoryPath = "d1"
    /\ scenario.cfg.DirectoryPath = <<"d1">>
    /\ prog["c1"] = <<>> /\ callers["c1"].pc = "idle"
    /\ \E i \in 1..Len(files["d1"].latest) : files["d1"].latest[i].level = ERROR
    /\ \E i \in 1..Len(console) :
           /\ console[i].kind = "dump"
           /\ \E k \in 1..Len(console[i].lines) : console[i].lines[k].level = INFO

(***************************************************************************)
(* C35: run sends on done only after the flush of its syncFlushChan case.  *)
(* In the step that takes the request, every line of the write buffer goes *)
(* into latest.log or onto the console; until the reply is received the    *)
(* buffer is empty if DirectoryPath is set; SyncFlush gets its reply only  *)
(* from run waiting at that send, and the reply changes nothing.           *)
(***************************************************************************)
C35_SyncFlushAck ==
    /\ [][\A c \in Callers :
              (callers[c].pc = "sendSync" /\ callers'[c].pc = "waitSync") =>
                  \A i \in 1..Len(writeBuffer) :
                      \/ \E d \in ValidDirs : \E n \in 1..Len(files'[d].latest) :
                             files'[d].latest[n] = writeBuffer[i]
                      \/ \E j \in (Len(console) + 1)..Len(console') :
                             /\ console'[j].kind = "dump"
                             /\ \E n \in 1..Len(console'[j].lines) :
                                    console'[j].lines[n] = writeBuffer[i]]_vars
    /\ []((run.pc = "sendSyncDone" /\ config.DirectoryPath # "") =>
              writeBuffer = <<>>)
    /\ [][\A c \in Callers :
              (callers[c].pc = "waitSync" /\ callers'[c].result = "done") =>
                  /\ run.pc = "sendSyncDone" /\ run.done = c
                  /\ UNCHANGED <<config, writeBuffer, files, console>>]_vars

\* SyncFlush was acknowledged after an update with a directory that does
\* not exist: the line logged before the update is still in the write
\* buffer, in no file and not on the console.
C35_AckedUnflushed ==
    /\ callers["c1"].op.op = "SyncFlush" /\ callers["c1"].pc = "idle"
    /\ callers["c1"].result = "done"
    /\ scenario.progs["c1"][2] = SetDirectoryPath("bad")
    /\ config.DirectoryPath = "" /\ writeBuffer # <<>>
    /\ \A i \in 1..Len(writeBuffer) :
           ~InFiles(writeBuffer[i].id) /\ ~InConsole(writeBuffer[i].id)

(***************************************************************************)
(* C36: whatever a Logger does, the Config of a second Logger built with   *)
(* nil fields, and the defaults that NewLogger applies later, keep the     *)
(* values of the package defaults: level, buffer and file limits, flush    *)
(* interval and directory path.                                            *)
(***************************************************************************)
C36_InstanceIsolation == otherConfig = DefaultValue

\* NewLogger was given Level and DirectoryPath only; after SetLevel and
\* the other updates the package defaults are intact except the one whose
\* field was nil: DefaultMaxBufferSizeBytes is 1.
C36_DefaultOverwritten ==
    /\ scenario.cfg.MaxBufferSizeBytes = Nil /\ scenario.cfg.Level # Nil
    /\ callers["c1"].op = SetMaxBufferSizeBytes(1) /\ callers["c1"].pc = "idle"
    /\ config.MaxBufferSizeBytes = 1
    /\ otherConfig.MaxBufferSizeBytes = 1
    /\ otherConfig.Level = DefaultLevel

(***************************************************************************)
(* C37: the line of a LogMessage is printed on the console at most once:   *)
(* over all console prints, those of a dumped buffer included, no line     *)
(* occurs twice.                                                           *)
(***************************************************************************)
Prints(id) ==
    UNION {{<<i, n>> : n \in {k \in 1..Len(console[i].lines) :
                                 console[i].lines[k].id = id}} :
              i \in 1..Len(console)}

C37_ConsoleAtMostOnce ==
    \A id \in 1..(nextId - 1) : Cardinality(Prints(id)) <= 1

\* No console sink was configured.  The line that filled the buffer was
\* dumped with the buffer by the failing flush and then printed again by
\* handleMessage on the default sink that the fallback installed.
C37_PrintedTwice ==
    /\ scenario.cfg.ConsoleOut = Nil /\ NumFaults = 1
    /\ \E i \in 1..(Len(console) - 1) :
           /\ console[i].kind = "dump" /\ console[i + 1].kind = "line"
           /\ console[i].sink = StdoutSink /\ console[i + 1].sink = StdoutSink
           /\ console[i].lines[Len(console[i].lines)] = console[i + 1].lines[1]

(***************************************************************************)
(* C38: whenever run is at its select and DirectoryPath is set, the write  *)
(* buffer is shorter than MaxBufferSizeBytes.                              *)
(***************************************************************************)
C38_BufferBoundIdle ==
    (run.pc = "select" /\ config.DirectoryPath # "") =>
        Len(writeBuffer) < config.MaxBufferSizeBytes

\* One line was buffered under a limit of two; the update has set the
\* limit to one; run waits at its select with the line still buffered and
\* nothing queued.
C38_OverLimitAfterUpdate ==
    /\ run.pc = "select" /\ config.DirectoryPath = "d1"
    /\ scenario.cfg.MaxBufferSizeBytes = <<2>>
    /\ callers["c1"].op = SetMaxBufferSizeBytes(1) /\ callers["c1"].pc = "idle"
    /\ config.MaxBufferSizeBytes = 1 /\ Len(writeBuffer) = 1
    /\ messageChan = <<>> /\ \A c \in Callers : callers[c].pc = "idle"

(***************************************************************************)
(* C39: the LogMessages in messageChan are in the order of their sends and *)
(* none of them is in the buffer, in a file or on the console.  messageChan*)
(* changes only by a send that appends or by run, at its select with       *)
(* Running set, taking the head: neither the shutdown nor Start changes    *)
(* it, and after Start the queued messages are taken first, in order.      *)
(***************************************************************************)
C39_QueueSurvivesRestart ==
    /\ [](/\ Increasing(IdSeq(messageChan))
          /\ \A i \in 1..Len(messageChan) :
                 messageChan[i].id < nextId /\ ~Emitted(messageChan[i].id))
    /\ [][messageChan' # messageChan =>
              \/ /\ \E c \in Callers : callers[c].pc = "qM" /\ callers'[c].pc # "qM"
                 /\ Len(messageChan') = Len(messageChan) + 1
                 /\ SubSeq(messageChan', 1, Len(messageChan)) = messageChan
                 /\ messageChan'[Len(messageChan')].id = nextId
              \/ /\ Running /\ run.pc = "select" /\ callers' = callers
                 /\ messageChan' = Tail(messageChan)]_vars
    /\ [][run.pc # "select" /\ run'.pc = "select" =>
              /\ messageChan' = messageChan
              /\ EngineUnchanged]_vars

\* Shutdown returned, the goroutine logged while run was returning or had
\* returned, called Start and logged again: both lines are in latest.log,
\* the one queued across the restart first.
C39_HandledAfterRestart ==
    /\ scenario.progs["c1"] = <<ShutdownOp(0), LogOp(WARN), StartOp, LogOp(INFO),
                                FlushOp>>
    /\ scenario.progs["c2"] = <<>>
    /\ Running /\ run.pc = "select" /\ messageChan = <<>>
    /\ IdSeq(files["d1"].latest) = <<1, 2>>

(***************************************************************************)
(* C40: a call of a that starts after Cleanup has returned returns         *)
(* ErrShutdown, and one that starts while instance is nil returns          *)
(* ErrUninitialized; and no call made through a is left sending on a       *)
(* channel of the Logger after run has returned.                           *)
(***************************************************************************)
Consumed(c) == Len(scenario.progs[c]) - Len(prog[c])

\* The call in progress, or the last one made, went through a.
Guarded(c) ==
    /\ Consumed(c) >= 2
    /\ scenario.progs[c][Consumed(c) - 1].op = "a"
    /\ callers[c].op = scenario.progs[c][Consumed(c)]

\* Some goroutine's Cleanup has returned.
CleanupReturned ==
    \E c \in Callers : \E j \in 2..Consumed(c) :
        /\ scenario.progs[c][j].op = "Shutdown"
        /\ scenario.progs[c][j - 1].op = "a"
        /\ j < Consumed(c) \/ callers[c].pc = "idle"

\* The goroutine is in a send that only run can receive.
BlockedOnRun(c) ==
    \/ callers[c].pc \in {"sendFlush", "sendSync", "sendShutdown", "sendGet",
                          "sendSet"}
    \/ callers[c].pc = "qM" /\ Len(messageChan) = MsgChanSize

C40_SingletonGuard ==
    /\ [][\A c \in Callers :
              (/\ prog[c] # <<>> /\ Head(prog[c]).op = "a"
               /\ prog'[c] # prog[c]) =>
                  /\ run.pc # "nil" /\ CleanupReturned =>
                         callers'[c].result = ErrShutdown
                  /\ run.pc = "nil" => callers'[c].result = ErrUninitialized]_vars
    /\ [](\A c \in Callers :
              Guarded(c) /\ run.pc = "returned" => ~BlockedOnRun(c))

\* Cleanup(0) has returned to the goroutine, its next call, Flush, passed
\* instanceGuard while Running was still set, and run has returned since:
\* the send on flushSignal has no receiver.
C40_BlockedAfterCleanup ==
    /\ scenario.progs["c1"] = <<GuardedOp, LogOp(INFO), GuardedOp, ShutdownOp(0),
                                GuardedOp, FlushOp>>
    /\ scenario.progs["c2"] = <<>>
    /\ callers["c1"].op = FlushOp /\ callers["c1"].pc = "sendFlush"
    /\ run.pc = "returned" /\ ~Running

====
